---- MODULE Spec2Model ----
(***************************************************************************)
(* Model of two thread-sharing elements of gst-plugins-rs:                 *)
(*                                                                         *)
(*  - the standalone async-mutex sink                                      *)
(*    (generic/threadshare/examples/standalone/sink/async_mutex/imp.rs):   *)
(*    a Sink Port handler whose state PadSinkHandlerInner is guarded by a  *)
(*    futures::lock::Mutex;                                                *)
(*  - ts-appsrc (generic/threadshare/src/appsrc.rs): a bounded channel     *)
(*    fed by push_buffer / end_of_stream and drained by the iterate loop   *)
(*    of AppSrcTask, which pushes on the Source Port.                      *)
(*                                                                         *)
(* The runtime (Task, Context, the reentrancy bridge) is not part of the   *)
(* sources at hand; the definitions that stand for it follow the written   *)
(* specification and say so.                                               *)
(*                                                                         *)
(* Option<T> values are sequences of length at most one: <<>> is None and  *)
(* <<x>> is Some(x).                                                       *)
(***************************************************************************)
EXTENDS Integers, Sequences, FiniteSets, TLC

None == <<>>
Some(x) == <<x>>
IsSome(o) == o # <<>>
Unwrap(o) == o[1]

(***************************************************************************)
(* Bounds of the model.                                                    *)
(***************************************************************************)
\* Timestamps (dts, segment start, running time) range over 0..MaxDts.
MaxDts == 1
\* Stats::add_buffer is called at most this many times between two starts.
MaxStatsBuffers == 1
\* Fire-and-forget sub-tasks that may be queued on the Context at once.
MaxSubTasks == 1

\* Settings.max_buffers, the size the channel is created with.
MaxBuffers == 1
\* Buffers push_buffer accepts in all.
MaxItems == 3
\* context-wait values range over 0..MaxWait.
MaxWait == 1
\* Running times of the combiner's buffers range over 1..MaxRt.
MaxRt == 2
\* Video buffers that arrive at the combiner in all.
MaxVideo == 3
\* Audio buffers that arrive at the combiner in all.
MaxAudio == 2

\* The concurrent callers of the Sink Port's callbacks (streaming threads,
\* application threads, tasks of the Context).
Callers == {"c1", "c2"}

Dts == 0..MaxDts
OptDts == {None} \cup {Some(d) : d \in Dts}

(***************************************************************************)
(* State of the async-mutex sink.                                          *)
(***************************************************************************)
VARIABLES
    inner,      \* PadSinkHandlerInner, the data inside the futures Mutex
    lock,       \* who holds AsyncPadSinkHandler.0: "free", a caller, "sub", "app"
    pc,         \* pc[c]: where caller c is inside a callback; "ret_Ok",
                \* "ret_Flushing", "ret_Panic": its sink_chain is returning that
    arg,        \* arg[c]: the buffer or event caller c's callback was given
    subq,       \* queued fire-and-forget flush-start sub-tasks of the Context
    fsForeign,  \* a flush-start sink_event issued off the Context has returned,
                \* and is_flushing has not been cleared since
    fsCtx,      \* the same for a flush-start sink_event issued on the Context
    sinkGst,    \* the element state the sink has reached: Null, Ready, Paused
    lcPc,       \* where the state-change thread is inside prepare/start/stop
    sinkStopped \* stop() has run and start() has not run since

sinkVars == <<inner, lock, pc, arg, subq, fsForeign, fsCtx, sinkGst, lcPc, sinkStopped>>

(***************************************************************************)
(* State of ts-appsrc.                                                     *)
(***************************************************************************)
VARIABLES
    srcGst,          \* the element state reached: Null, Ready, Paused, Playing
    settingsCaps,    \* Settings.caps, an Option
    taskBound,       \* Task: prepare() has bound an AppSrcTask (and its receiver)
    taskState,       \* Task: Stopped, Prepared, Started, Paused
    flushing,        \* Task: the Flushing flag
    sender,          \* AppSrc.sender: "None", "Some", or "Stale": Some sender of
                     \* a channel whose receiver is gone
    chan,            \* the items in the mpsc channel, oldest first
    nextId,          \* the number the next accepted buffer gets
    item,            \* the StreamItem the running iteration holds, an Option
    loopPc,          \* where the Task's loop is inside AppSrcTask::iterate
    pushRes,         \* what the pad.push(buffer) in flight returns
    hstate,          \* AppSrcPadHandlerState, the data inside the FutMutex
    configured_caps, \* AppSrcPadHandlerInner.configured_caps, an Option
    lastBufId,       \* the number of the buffer pushed downstream last
    stops,           \* the calls of stop() since prepare(), counted up to 2
    stopMark,        \* None until a stop() since prepare(); then Some(k): the
                     \* buffers numbered up to k were accepted before that stop()
    ssSinceReset,    \* a stream-start was pushed since the last prepare()/stop()
    capsSinceReset,  \* a caps event was pushed since the last prepare()/stop()
    segSinceReset,   \* a segment was pushed since the last prepare()/stop()
    segSinceFlush,   \* a segment was pushed since the last prepare()/stop()/flush
    flushMark,       \* the buffers numbered up to flushMark were accepted before
                     \* the last flush_start()
    settingsContext, \* Settings.context, the Context name
    settingsWait,    \* Settings.context_wait
    contexts,        \* the registry of live shared Contexts, by name
    taskCtx,         \* the Context handle the appsrc's Task holds, an Option
    otherCtx,        \* the Context handle another element holds, an Option
    csRet,           \* what the last change_state returned, and whether it
                     \* posted an error message
    pbPc,            \* where a push_buffer call is that runs step by step:
                     \* "idle", "send" (past the state check, the state lock
                     \* held) or "panicked"
    pbRet,           \* what that push_buffer returned: "none", "true", "false"
    loopFailed       \* iterate has posted an element error since prepare()

srcVars == <<srcGst, settingsCaps, taskBound, taskState, flushing, sender, chan, nextId,
             item, loopPc, pushRes, hstate, configured_caps, lastBufId, stopMark, stops,
             ssSinceReset, capsSinceReset, segSinceReset, segSinceFlush, flushMark,
             settingsContext, settingsWait, contexts, taskCtx, otherCtx, csRet,
             pbPc, pbRet, loopFailed>>

(***************************************************************************)
(* State of the NDI sink combiner (ndisinkcombiner/imp.rs 23-36), of its   *)
(* two sink pads and of one aggregate() call.                              *)
(***************************************************************************)
VARIABLES
    state,      \* NdiSinkCombiner.state: Option<State>, behind the state Mutex
    stateLock,  \* the state Mutex: "free", "agg" (aggregate holds the guard),
                \* "poisoned" (a thread panicked with the guard alive)
    audio_pad,  \* NdiSinkCombiner.audio_pad is Some
    pads,       \* pads[p], p "video" or "audio": the buffers queued on the
                \* pad (data), the clipped buffer a peek has left (clipped),
                \* and whether the pad has received EOS (eos)
    aggPc,      \* where the aggregate() call is
    aggRet,     \* what the last aggregate() returned (val), and whether that
                \* was what finish_buffer returned (downstream)
    vPeek,      \* video_buffer_and_segment, an Option
    aPeek,      \* audio_buffer_segment_and_pad, an Option
    cur,        \* current_video_buffer, the buffer being finished, an Option
    vEnd,       \* current_video_running_time_end, an Option
    finished,        \* the buffers given to finish_buffer since start()
    nextVid,    \* id of the next video buffer to arrive
    nextAud,    \* id of the next audio buffer to arrive
    takenV,     \* ids of the video buffers stored as current_video_buffer
                \* since start(), in order
    takenA,     \* ids of the audio buffers pushed on current_audio_buffers
                \* since start(), in order
    evRet       \* what the last caps sink_event returned

ndiVars == <<state, stateLock, audio_pad, pads, aggPc, aggRet, vPeek, aPeek, cur, vEnd,
             finished, nextVid, nextAud, takenV, takenA, evRet>>

vars == <<sinkVars, srcVars, ndiVars>>

NoArg == [kind |-> "none", val |-> None, after |-> FALSE, pending |-> 0]

\* PadSinkHandlerInner::default(). is_main_elem only selects the level the
\* handler logs at and is left out.
InnerDefault ==
    [is_flushing |-> FALSE, last_dts |-> None, segment_start |-> None, stats |-> None]

\* Stats (super::super::Stats) is kept as the number of add_buffer calls since
\* the last start().
StatsNew == 0
StatsAddBuffer(s) == s + 1
StatsStart(s) == 0

StatsRoom == IF inner.stats = None THEN TRUE ELSE Unwrap(inner.stats) < MaxStatsBuffers

(***************************************************************************)
(* PadSinkHandlerInner::handle_buffer (imp.rs 37-84).                      *)
(*                                                                         *)
(* The set of outcomes [inner, res] of handling a buffer with timestamp    *)
(* dts when the element's running time is cur_ts. res is "Ok", "Flushing" *)
(* or "Panic" (a failed expect/unwrap; nothing has been written then).     *)
(* ClockTime subtraction that underflows (cur_ts - dts, dts - last_dts)    *)
(* either panics or wraps, depending on the build: both are outcomes.      *)
(***************************************************************************)
HandleBufferFlushingIgnored(in, dts, cur_ts) ==
    IF dts = None \/ in.segment_start = None
    THEN {[inner |-> in, res |-> "Panic"]}
    ELSE IF Unwrap(dts) < Unwrap(in.segment_start)
    THEN {[inner |-> in, res |-> "Panic"]}
    ELSE {[inner |-> [in EXCEPT !.last_dts = Some(Unwrap(dts) - Unwrap(in.segment_start))],
           res |-> "Ok"]}

HandleBuffer(in, dts, cur_ts) ==
    IF in.is_flushing
    THEN {[inner |-> in, res |-> "Flushing"]}
    ELSE IF dts = None                                   \* expect("Buffer without dts")
    THEN {[inner |-> in, res |-> "Panic"]}
    ELSE IF in.segment_start = None                      \* expect("Buffer without Time Segment")
    THEN {[inner |-> in, res |-> "Panic"]}
    ELSE IF Unwrap(dts) < Unwrap(in.segment_start)       \* expect("dts before Segment start")
    THEN {[inner |-> in, res |-> "Panic"]}
    ELSE
        LET d == Unwrap(dts) - Unwrap(in.segment_start)
            done == [in EXCEPT !.last_dts = Some(d),
                               !.stats = IF in.stats = None THEN None
                                         ELSE Some(StatsAddBuffer(Unwrap(in.stats)))]
        IN  IF in.last_dts = None
            THEN {[inner |-> [in EXCEPT !.last_dts = Some(d)], res |-> "Ok"]}
            ELSE IF cur_ts = None                        \* current_running_time().unwrap()
            THEN {[inner |-> in, res |-> "Panic"]}
            ELSE IF Unwrap(cur_ts) < d \/ d < Unwrap(in.last_dts)
            THEN {[inner |-> in, res |-> "Panic"], [inner |-> done, res |-> "Ok"]}
            ELSE {[inner |-> done, res |-> "Ok"]}

(***************************************************************************)
(* The sink pad is active, and the host hands it buffers and events, from  *)
(* the parent's ReadyToPaused, which change_state runs after start(), to   *)
(* the parent's PausedToReady, which it runs after stop() (imp.rs 310-333).*)
(* A callback that has begun goes on whatever the state becomes.           *)
(***************************************************************************)
PadActive == sinkGst = "Paused"

(***************************************************************************)
(* AsyncPadSinkHandler::sink_chain (imp.rs 93-107).                        *)
(***************************************************************************)
RetPc(res) == CASE res = "Ok" -> "ret_Ok"
                 [] res = "Flushing" -> "ret_Flushing"
                 [] OTHER -> "ret_Panic"

\* The host hands a buffer to the Sink Port: the callback starts.
SinkChainCall(c) ==
    /\ PadActive
    /\ pc[c] = "idle"
    /\ StatsRoom
    /\ \E dts \in OptDts :
         arg' = [arg EXCEPT ![c] = [kind |-> "Buffer", val |-> dts,
                                    after |-> fsForeign \/ fsCtx, pending |-> 0]]
    /\ pc' = [pc EXCEPT ![c] = "chain_lock"]
    /\ UNCHANGED <<inner, lock, subq, fsForeign, fsCtx, sinkGst, lcPc, sinkStopped, srcVars, ndiVars>>

\* self.0.lock().await: resumes once the Mutex is free.
SinkChainLockNoWait(c) ==
    /\ pc[c] = "chain_lock"
    /\ lock' = c
    /\ pc' = [pc EXCEPT ![c] = "chain_body"]
    /\ UNCHANGED <<inner, arg, subq, fsForeign, fsCtx, sinkGst, lcPc, sinkStopped, srcVars, ndiVars>>

SinkChainLock(c) ==
    /\ pc[c] = "chain_lock"
    /\ lock = "free"
    /\ lock' = c
    /\ pc' = [pc EXCEPT ![c] = "chain_body"]
    /\ UNCHANGED <<inner, arg, subq, fsForeign, fsCtx, sinkGst, lcPc, sinkStopped, srcVars, ndiVars>>

\* (Variant: the guard is kept on the error path.)
SinkChainBodyKeepsGuardOnError(c) ==
    /\ pc[c] = "chain_body"
    /\ \E cur_ts \in OptDts :
         \E out \in HandleBuffer(inner, arg[c].val, cur_ts) :
            /\ inner' = out.inner
            /\ pc' = [pc EXCEPT ![c] = RetPc(out.res)]
            /\ lock' = IF out.res = "Ok" /\ lock = c THEN "free" ELSE lock
    /\ arg' = [arg EXCEPT ![c] = NoArg]
    /\ UNCHANGED <<subq, fsForeign, fsCtx, sinkGst, lcPc, sinkStopped, srcVars, ndiVars>>

\* handle_buffer under the guard; the guard is a temporary of the condition,
\* dropped (also when unwinding) before the callback returns.
SinkChainBody(c) ==
    /\ pc[c] = "chain_body"
    /\ \E cur_ts \in OptDts :
         \E out \in HandleBuffer(inner, arg[c].val, cur_ts) :
            /\ inner' = out.inner
            /\ pc' = [pc EXCEPT ![c] = RetPc(out.res)]
    /\ lock' = IF lock = c THEN "free" ELSE lock
    /\ arg' = [arg EXCEPT ![c] = NoArg]
    /\ UNCHANGED <<subq, fsForeign, fsCtx, sinkGst, lcPc, sinkStopped, srcVars, ndiVars>>

\* The callback returns Ok(FlowSuccess::Ok) or Err(FlowError::Flushing), or
\* the panic leaves it.
SinkChainReturn(c) ==
    /\ pc[c] \in {"ret_Ok", "ret_Flushing", "ret_Panic"}
    /\ pc' = [pc EXCEPT ![c] = "idle"]
    /\ UNCHANGED <<inner, lock, arg, subq, fsForeign, fsCtx, sinkGst, lcPc, sinkStopped, srcVars, ndiVars>>

(***************************************************************************)
(* AsyncPadSinkHandler::sink_event_serialized (imp.rs 109-148).            *)
(***************************************************************************)
\* Eos, FlushStop and a Segment in time format go for the lock. A time
\* segment carries its start, an Option<ClockTime>.
SinkEventSerializedCall(c) ==
    /\ PadActive
    /\ pc[c] = "idle"
    /\ \E kind \in {"Eos", "FlushStop", "Segment"} :
         \E start \in (IF kind = "Segment" THEN OptDts ELSE {None}) :
            arg' = [arg EXCEPT ![c] = [kind |-> kind, val |-> start, after |-> FALSE,
                                       pending |-> IF kind = "FlushStop" THEN subq ELSE 0]]
    /\ pc' = [pc EXCEPT ![c] = "ev_lock"]
    /\ UNCHANGED <<inner, lock, subq, fsForeign, fsCtx, sinkGst, lcPc, sinkStopped, srcVars, ndiVars>>

\* A SinkMessage event, a segment in another format and every other event
\* return true without touching the handler.
SinkEventSerializedOther(c) ==
    /\ PadActive
    /\ pc[c] = "idle"
    /\ UNCHANGED vars

SinkEventSerializedLock(c) ==
    /\ pc[c] = "ev_lock"
    /\ lock = "free"
    /\ lock' = c
    /\ pc' = [pc EXCEPT ![c] = "ev_body"]
    /\ UNCHANGED <<inner, arg, subq, fsForeign, fsCtx, sinkGst, lcPc, sinkStopped, srcVars, ndiVars>>

\* The write under the guard, and the guard's drop. After Eos the callback
\* goes on to post the Shutdown message without the lock.
SinkEventSerializedBody(c) ==
    /\ pc[c] = "ev_body"
    /\ inner' = CASE arg[c].kind = "Eos"       -> [inner EXCEPT !.is_flushing = TRUE]
                  [] arg[c].kind = "FlushStop" -> [inner EXCEPT !.is_flushing = FALSE]
                  [] OTHER                     -> [inner EXCEPT !.segment_start = arg[c].val]
    /\ lock' = "free"
    /\ fsForeign' = IF arg[c].kind = "FlushStop" THEN FALSE ELSE fsForeign
    /\ fsCtx' = IF arg[c].kind = "FlushStop" THEN FALSE ELSE fsCtx
    /\ IF arg[c].kind = "Eos"
       THEN /\ pc' = [pc EXCEPT ![c] = "ev_post"]
            /\ arg' = arg
       ELSE /\ pc' = [pc EXCEPT ![c] = "idle"]
            /\ arg' = [arg EXCEPT ![c] = NoArg]
    /\ UNCHANGED <<subq, sinkGst, lcPc, sinkStopped, srcVars, ndiVars>>

\* (Variant: the callback ends while its guard is alive and never drops it.)
SinkEventSerializedPostHoldsGuard(c) ==
    /\ pc[c] = "ev_post"
    /\ lock = "free"
    /\ lock' = c
    /\ pc' = [pc EXCEPT ![c] = "idle"]
    /\ arg' = [arg EXCEPT ![c] = NoArg]
    /\ UNCHANGED <<inner, subq, fsForeign, fsCtx, sinkGst, lcPc, sinkStopped, srcVars, ndiVars>>

\* elem.post_message(Error(Shutdown, "EOS")), then the callback returns true.
SinkEventSerializedPost(c) ==
    /\ pc[c] = "ev_post"
    /\ pc' = [pc EXCEPT ![c] = "idle"]
    /\ arg' = [arg EXCEPT ![c] = NoArg]
    /\ UNCHANGED <<inner, lock, subq, fsForeign, fsCtx, sinkGst, lcPc, sinkStopped, srcVars, ndiVars>>

(***************************************************************************)
(* AsyncPadSinkHandler::sink_event (imp.rs 150-156) and the bridge         *)
(* block_on_or_add_sub_task.                                               *)
(***************************************************************************)
\* block_on_or_add_sub_task: on the Context's own thread the work is queued
\* as a fire-and-forget sub-task, elsewhere the caller blocks until it is done.
BridgePath(onContext) == IF onContext THEN "sub_task" ELSE "block"

\* (Variant: the caller waits for the work on the Context's thread too.)
SinkEventFlushStartOnContextBlocks(c) ==
    /\ PadActive
    /\ pc[c] = "idle"
    /\ subq < MaxSubTasks
    /\ fsCtx' = TRUE
    /\ pc' = [pc EXCEPT ![c] = "fs_lock"]
    /\ arg' = [arg EXCEPT ![c] = [kind |-> "FlushStart", val |-> None, after |-> FALSE,
                               pending |-> 0]]
    /\ UNCHANGED <<inner, lock, subq, fsForeign, sinkGst, lcPc, sinkStopped, srcVars, ndiVars>>

\* flush-start on a thread of the Context: the work is queued and sink_event
\* returns true at once.
SinkEventFlushStartOnContext(c) ==
    /\ PadActive
    /\ pc[c] = "idle"
    /\ BridgePath(TRUE) = "sub_task"
    /\ subq < MaxSubTasks
    /\ subq' = subq + 1
    /\ fsCtx' = TRUE
    /\ UNCHANGED <<inner, lock, pc, arg, fsForeign, sinkGst, lcPc, sinkStopped, srcVars, ndiVars>>

\* flush-start on any other thread: the caller blocks on the work.
SinkEventFlushStartCall(c) ==
    /\ PadActive
    /\ pc[c] = "idle"
    /\ BridgePath(FALSE) = "block"
    /\ pc' = [pc EXCEPT ![c] = "fs_lock"]
    /\ arg' = [arg EXCEPT ![c] = [kind |-> "FlushStart", val |-> None, after |-> FALSE,
                               pending |-> 0]]
    /\ UNCHANGED <<inner, lock, subq, fsForeign, fsCtx, sinkGst, lcPc, sinkStopped, srcVars, ndiVars>>

\* async move { self.0.lock().await ... }: the work waits for the Mutex.
FlushStartLock(c) ==
    /\ pc[c] = "fs_lock"
    /\ lock = "free"
    /\ lock' = c
    /\ pc' = [pc EXCEPT ![c] = "fs_body"]
    /\ UNCHANGED <<inner, arg, subq, fsForeign, fsCtx, sinkGst, lcPc, sinkStopped, srcVars, ndiVars>>

\* (Variant: the work is left to a sub-task and sink_event returns before
\* is_flushing is written, as on the Context's own thread.)
FlushStartBodyDeferred(c) ==
    /\ pc[c] = "fs_body"
    /\ lock' = IF lock = c THEN "free" ELSE lock
    /\ subq' = IF subq < MaxSubTasks THEN subq + 1 ELSE subq
    /\ fsForeign' = TRUE
    /\ pc' = [pc EXCEPT ![c] = "idle"]
    /\ arg' = [arg EXCEPT ![c] = NoArg]
    /\ UNCHANGED <<inner, fsCtx, sinkGst, lcPc, sinkStopped, srcVars, ndiVars>>

\* ... .is_flushing = true; the guard drops, block_on returns, sink_event
\* returns true.
FlushStartBody(c) ==
    /\ pc[c] = "fs_body"
    /\ inner' = [inner EXCEPT !.is_flushing = TRUE]
    /\ lock' = IF lock = c THEN "free" ELSE lock
    /\ fsForeign' = TRUE
    /\ pc' = [pc EXCEPT ![c] = "idle"]
    /\ arg' = [arg EXCEPT ![c] = NoArg]
    /\ UNCHANGED <<subq, fsCtx, sinkGst, lcPc, sinkStopped, srcVars, ndiVars>>

\* The Context runs a queued flush-start sub-task: it waits for the Mutex ...
SubTaskLock ==
    /\ subq > 0
    /\ lock = "free"
    /\ lock' = "sub"
    /\ UNCHANGED <<inner, pc, arg, subq, fsForeign, fsCtx, sinkGst, lcPc, sinkStopped, srcVars, ndiVars>>

\* A flush-stop call counts, in arg.pending, the flush-start sub-tasks that
\* were queued when it was called and have not run yet; the queue is FIFO.
OldestSubTaskRan ==
    [c \in Callers |-> IF arg[c].pending > 0
                       THEN [arg[c] EXCEPT !.pending = @ - 1]
                       ELSE arg[c]]

\* (Variant: the sub-task is dropped without doing its work.)
SubTaskBodyDropped ==
    /\ lock = "sub"
    /\ lock' = "free"
    /\ subq' = subq - 1
    /\ arg' = OldestSubTaskRan
    /\ UNCHANGED <<inner, pc, fsForeign, fsCtx, sinkGst, lcPc, sinkStopped, srcVars, ndiVars>>

\* ... and sets is_flushing.
SubTaskBody ==
    /\ lock = "sub"
    /\ inner' = [inner EXCEPT !.is_flushing = TRUE]
    /\ lock' = "free"
    /\ subq' = subq - 1
    /\ arg' = OldestSubTaskRan
    /\ UNCHANGED <<pc, fsForeign, fsCtx, sinkGst, lcPc, sinkStopped, srcVars, ndiVars>>

(***************************************************************************)
(* AsyncMutexSink::change_state (imp.rs 310-333) with                      *)
(* AsyncMutexSink::prepare/start/stop (197-232) and                        *)
(* AsyncPadSinkHandler::prepare/start/stop (159-187). Each blocks the      *)
(* state-change thread on the handler's Mutex. Paused stands for Paused    *)
(* and Playing: the transitions between them do nothing here.              *)
(***************************************************************************)
ChangeStateCall ==
    /\ lcPc = "idle"
    /\ \/ sinkGst = "Null"   /\ lcPc' = "prepare_lock"
       \/ sinkGst = "Ready"  /\ lcPc' = "start_lock"
       \/ sinkGst = "Paused" /\ lcPc' = "stop_lock"
    /\ UNCHANGED <<inner, lock, pc, arg, subq, fsForeign, fsCtx, sinkGst, sinkStopped, srcVars, ndiVars>>

\* ReadyToNull: no handler call.
ChangeStateReadyToNull ==
    /\ lcPc = "idle"
    /\ sinkGst = "Ready"
    /\ sinkGst' = "Null"
    /\ UNCHANGED <<inner, lock, pc, arg, subq, fsForeign, fsCtx, lcPc, sinkStopped, srcVars, ndiVars>>

HandlerLifecycleLock ==
    /\ lcPc \in {"prepare_lock", "start_lock", "stop_lock"}
    /\ lock = "free"
    /\ lock' = "app"
    /\ lcPc' = CASE lcPc = "prepare_lock" -> "prepare_body"
                 [] lcPc = "start_lock"   -> "start_body"
                 [] OTHER                 -> "stop_body"
    /\ UNCHANGED <<inner, pc, arg, subq, fsForeign, fsCtx, sinkGst, sinkStopped, srcVars, ndiVars>>

\* AsyncPadSinkHandler::prepare: logs_stats comes from the settings.
HandlerPrepareBody ==
    /\ lcPc = "prepare_body"
    /\ \E logs_stats \in BOOLEAN :
         inner' = [inner EXCEPT !.stats = IF logs_stats THEN Some(StatsNew) ELSE None]
    /\ lock' = "free"
    /\ lcPc' = "idle"
    /\ sinkGst' = "Ready"
    /\ UNCHANGED <<pc, arg, subq, fsForeign, fsCtx, sinkStopped, srcVars, ndiVars>>

\* AsyncPadSinkHandler::start
HandlerStartBody ==
    /\ lcPc = "start_body"
    /\ inner' = [inner EXCEPT !.is_flushing = FALSE,
                              !.last_dts = None,
                              !.stats = IF inner.stats = None THEN None
                                        ELSE Some(StatsStart(Unwrap(inner.stats)))]
    /\ lock' = "free"
    /\ lcPc' = "idle"
    /\ sinkGst' = "Paused"
    /\ fsForeign' = FALSE
    /\ fsCtx' = FALSE
    /\ sinkStopped' = FALSE
    /\ UNCHANGED <<pc, arg, subq, srcVars, ndiVars>>

\* AsyncPadSinkHandler::stop
HandlerStopBody ==
    /\ lcPc = "stop_body"
    /\ inner' = [inner EXCEPT !.is_flushing = TRUE]
    /\ lock' = "free"
    /\ lcPc' = "idle"
    /\ sinkGst' = "Ready"
    /\ sinkStopped' = TRUE
    /\ UNCHANGED <<pc, arg, subq, fsForeign, fsCtx, srcVars, ndiVars>>

(***************************************************************************)
(* ts-appsrc.                                                              *)
(***************************************************************************)
gstVars == <<srcGst, settingsCaps>>
ctxVars == <<settingsContext, settingsWait, contexts, taskCtx, otherCtx>>
pushVars == <<pbPc, pbRet>>
taskVars == <<taskBound, taskState, flushing>>
chanVars == <<sender, chan, nextId>>
loopVars == <<item, loopPc, pushRes>>
handlerVars == <<hstate, configured_caps>>
seenVars == <<lastBufId, stopMark, stops, ssSinceReset, capsSinceReset, segSinceReset, segSinceFlush,
              flushMark>>

\* What a push downstream returns: Ok(FlowSuccess) or a FlowError.
FlowResults == {"Ok", "Eos", "Flushing", "NotNegotiated", "Error"}

CapsValues == {None, Some("caps")}

BufferItem(id) == [kind |-> "Buffer", id |-> id]
\* StreamItem::Event holding the EOS event end_of_stream queues.
\* The EOS event as an item. Its id is that of the last buffer ahead of it in
\* the channel when it was queued, 0 when there is none.
LastBufferIn(q) ==
    IF \E i \in 1..Len(q) : q[i].kind = "Buffer"
    THEN q[CHOOSE i \in 1..Len(q) :
               /\ q[i].kind = "Buffer"
               /\ \A j \in (i + 1)..Len(q) : q[j].kind # "Buffer"].id
    ELSE 0

EosItem(q) == [kind |-> "Eos", id |-> LastBufferIn(q)]

\* AppSrcPadHandlerState::default() (appsrc.rs 143-151)
HandlerStateDefault == [need_initial_events |-> TRUE, need_segment |-> TRUE, caps |-> None]

\* futures mpsc::channel(max_buffers) with its single Sender: try_send
\* succeeds while at most max_buffers items are queued (the sender has one
\* slot of its own beyond the buffer).
ChannelHasRoom(q) == Len(q) <= MaxBuffers

\* The loop has ended: iterate returned an error.
EndedPcs == {"ended_Eos", "ended_Flushing", "ended_NotNegotiated", "ended_Error",
             "ended_Aborted"}

\* The endings at which iterate has posted an element error (gst_element_error!).
ErrorPostedPcs == {"ended_NotNegotiated", "ended_Error", "ended_Aborted"}

\* push_prelude holds the FutMutex on the handler state from its first line
\* to its return, across the pushes it awaits.
StateLocked == loopPc \in {"sent_stream_start", "sent_caps", "sent_segment"}

(***************************************************************************)
(* The Task of the runtime, after the specification: the iteration step    *)
(* advances only while the Task is Started and not Flushing; stop() and    *)
(* flush_start() unwind the step at the suspension point it is at before   *)
(* their hook runs; pause() leaves it suspended where it is.               *)
(***************************************************************************)
LoopRunnableAlways == taskBound

LoopRunnable == taskState = "Started" /\ ~flushing

\* Task::lock_state: push_buffer holds the guard on the Task's state from its
\* first line to its return; a state transition of the Task needs the lock.
TaskStateNeverLocked == FALSE

TaskStateLocked == pbPc = "send"

\* (Variant: the step is left as it is.)
UnwindNot == UNCHANGED <<item, loopPc, pushRes>>

\* The running step is dropped: it lets go of the item it holds.
Unwind ==
    /\ item' = None
    /\ loopPc' = "idle"
    /\ pushRes' = "none"

(***************************************************************************)
(* ObjectImpl::set_property, "caps" (appsrc.rs 661-663). Settings.caps is  *)
(* read by prepare() alone, so a write at any other time shows exactly as  *)
(* a write just before the next prepare().                                 *)
(***************************************************************************)
SetPropertyCaps ==
    /\ srcGst = "Null"
    /\ \E c \in CapsValues \ {settingsCaps} : settingsCaps' = c
    /\ UNCHANGED <<srcGst, taskVars, chanVars, loopVars, handlerVars, seenVars, sinkVars, ndiVars, pushVars, loopFailed, ctxVars, csRet>>

(***************************************************************************)
(* AppSrc::push_buffer (appsrc.rs 436-472). The state lock is held from    *)
(* the check to the try_send.                                              *)
(***************************************************************************)
AppSrcPushBuffer ==
    /\ nextId <= MaxItems
    /\ \E do_timestamp \in BOOLEAN, has_clock \in BOOLEAN :
         IF taskState # "Started" /\ taskState # "Paused"
         THEN UNCHANGED <<chan, nextId>>                 \* rejected: element state
         ELSE IF do_timestamp /\ ~has_clock
         THEN UNCHANGED <<chan, nextId>>                 \* "Don't have a clock yet"
         ELSE IF sender = "Some" /\ ChannelHasRoom(chan)
         THEN /\ chan' = Append(chan, BufferItem(nextId))
              /\ nextId' = nextId + 1
         ELSE UNCHANGED <<chan, nextId>>                 \* try_send failed
    /\ UNCHANGED <<sender, gstVars, taskVars, loopVars, handlerVars, seenVars, sinkVars, ndiVars, pushVars, loopFailed, ctxVars, csRet>>

(***************************************************************************)
(* AppSrc::push_buffer step by step, for its interleavings with the state  *)
(* changes: the state check under lock_state() (437-441) with the          *)
(* timestamping (443-456), then the send (458-471), the guard on the state *)
(* held until the return.                                                  *)
(***************************************************************************)
PushBufferCheck ==
    /\ pbPc = "idle"
    /\ nextId <= MaxItems
    /\ \E do_timestamp \in BOOLEAN, has_clock \in BOOLEAN :
         IF taskState # "Started" /\ taskState # "Paused"
         THEN pbPc' = "idle" /\ pbRet' = "false"          \* rejected: element state
         ELSE IF do_timestamp /\ ~has_clock
         THEN pbPc' = "idle" /\ pbRet' = "false"          \* "Don't have a clock yet"
         ELSE pbPc' = "send" /\ pbRet' = "none"
    /\ UNCHANGED <<chanVars, gstVars, taskVars, loopVars, handlerVars, seenVars, sinkVars, ndiVars,
                   ctxVars, csRet, loopFailed>>

PushBufferSend ==
    /\ pbPc = "send"
    /\ IF sender = "None"
       THEN /\ pbPc' = "panicked"                         \* as_mut().unwrap() on None
            /\ UNCHANGED <<chan, nextId, pbRet>>
       ELSE IF sender = "Some" /\ ChannelHasRoom(chan)
       THEN /\ chan' = Append(chan, BufferItem(nextId))
            /\ nextId' = nextId + 1
            /\ pbPc' = "idle"
            /\ pbRet' = "true"
       ELSE /\ pbPc' = "idle"                             \* try_send failed
            /\ pbRet' = "false"
            /\ UNCHANGED <<chan, nextId>>
    /\ UNCHANGED <<sender, gstVars, taskVars, loopVars, handlerVars, seenVars, sinkVars, ndiVars,
                   ctxVars, csRet, loopFailed>>

(***************************************************************************)
(* AppSrc::end_of_stream (appsrc.rs 474-489)                               *)
(***************************************************************************)
AppSrcEndOfStream ==
    /\ sender = "Some"
    /\ ChannelHasRoom(chan)
    /\ chan' = Append(chan, EosItem(chan))
    /\ UNCHANGED <<sender, nextId, gstVars, taskVars, loopVars, handlerVars, seenVars, sinkVars, ndiVars, pushVars, loopFailed, ctxVars, csRet>>

(***************************************************************************)
(* AppSrcPadHandler::prepare (appsrc.rs 163-169)                           *)
(***************************************************************************)
PadHandlerPrepare(h, caps) == [h EXCEPT !.caps = caps]

(***************************************************************************)
(* The events push_prelude (appsrc.rs 179-206) pushes when it runs to its  *)
(* end from handler state h.                                               *)
(***************************************************************************)
Handshake(h) ==
    (IF h.need_initial_events
     THEN <<"stream-start">> \o (IF h.caps # None THEN <<"caps">> ELSE <<>>)
     ELSE <<>>)
    \o (IF h.need_segment THEN <<"segment">> ELSE <<>>)

(***************************************************************************)
(* Context::acquire and the release of a handle. The Context is not part   *)
(* of the sources at hand; this follows the written specification: the     *)
(* name is the sharing key, a live Context is shared by reference count    *)
(* and destroyed with its last handle, a different wait interval for a     *)
(* live name is rejected, and the empty name asks for a private, unshared  *)
(* Context. A Context is told from another by id, the id of its thread.    *)
(***************************************************************************)
ContextNames == {"", "ts"}
SharedNames == ContextNames \ {""}
Waits == 0..MaxWait
NoContexts == [n \in SharedNames |-> None]

\* The ids of the live Contexts: those registered and those held privately.
UsedIds ==
    {Unwrap(contexts[n]).id : n \in {m \in SharedNames : contexts[m] # None}}
        \cup (IF taskCtx = None THEN {} ELSE {Unwrap(taskCtx).id})
        \cup (IF otherCtx = None THEN {} ELSE {Unwrap(otherCtx).id})

FreshId(used) == CHOOSE i \in 1..(Cardinality(used) + 1) : i \notin used

\* [reg, handle]: the registry after the call and Some(handle), or None for
\* an AcquireError.
ContextAcquireUnshared(reg, used, name, wait) ==
    [reg |-> reg, handle |-> Some([name |-> name, id |-> FreshId(used), wait |-> wait])]

ContextAcquireAnyWait(reg, used, name, wait) ==
    IF name = ""
    THEN [reg |-> reg, handle |-> Some([name |-> name, id |-> FreshId(used), wait |-> wait])]
    ELSE IF reg[name] = None
    THEN [reg |-> [reg EXCEPT ![name] = Some([id |-> FreshId(used), wait |-> wait, refs |-> 1])],
          handle |-> Some([name |-> name, id |-> FreshId(used), wait |-> wait])]
    ELSE [reg |-> [reg EXCEPT ![name] = Some([Unwrap(reg[name]) EXCEPT !.refs = @ + 1])],
          handle |-> Some([name |-> name, id |-> Unwrap(reg[name]).id,
                           wait |-> Unwrap(reg[name]).wait])]

ContextAcquire(reg, used, name, wait) ==
    IF name = ""
    THEN [reg |-> reg, handle |-> Some([name |-> name, id |-> FreshId(used), wait |-> wait])]
    ELSE IF reg[name] = None
    THEN [reg |-> [reg EXCEPT ![name] = Some([id |-> FreshId(used), wait |-> wait, refs |-> 1])],
          handle |-> Some([name |-> name, id |-> FreshId(used), wait |-> wait])]
    ELSE IF Unwrap(reg[name]).wait = wait
    THEN [reg |-> [reg EXCEPT ![name] = Some([Unwrap(reg[name]) EXCEPT !.refs = @ + 1])],
          handle |-> Some([name |-> name, id |-> Unwrap(reg[name]).id, wait |-> wait])]
    ELSE [reg |-> reg, handle |-> None]

ContextRelease(reg, h) ==
    IF h.name = "" THEN reg
    ELSE IF reg[h.name] = None THEN reg
    ELSE IF Unwrap(reg[h.name]).id # h.id THEN reg
    ELSE IF Unwrap(reg[h.name]).refs = 1 THEN [reg EXCEPT ![h.name] = None]
    ELSE [reg EXCEPT ![h.name] = Some([Unwrap(reg[h.name]) EXCEPT !.refs = @ - 1])]

\* Another element of the process prepares with a context name and wait of
\* its own, and unprepares.
OtherAcquire ==
    /\ otherCtx = None
    /\ \E name \in ContextNames, wait \in Waits :
         LET acq == ContextAcquire(contexts, UsedIds, name, wait)
         IN  /\ acq.handle # None
             /\ contexts' = acq.reg
             /\ otherCtx' = acq.handle
    /\ UNCHANGED <<gstVars, taskVars, chanVars, loopVars, handlerVars, seenVars, sinkVars, ndiVars, pushVars, loopFailed,
                   settingsContext, settingsWait, taskCtx, csRet>>

OtherRelease ==
    /\ otherCtx # None
    /\ contexts' = ContextRelease(contexts, Unwrap(otherCtx))
    /\ otherCtx' = None
    /\ UNCHANGED <<gstVars, taskVars, chanVars, loopVars, handlerVars, seenVars, sinkVars, ndiVars, pushVars, loopFailed,
                   settingsContext, settingsWait, taskCtx, csRet>>

(***************************************************************************)
(* ObjectImpl::set_property, "context" and "context-wait" (appsrc.rs       *)
(* 651-659): read by prepare() alone, as the caps.                         *)
(***************************************************************************)
SetPropertyContext ==
    /\ srcGst = "Null"
    /\ \E name \in ContextNames, wait \in Waits :
         /\ <<name, wait>> # <<settingsContext, settingsWait>>
         /\ settingsContext' = name
         /\ settingsWait' = wait
    /\ UNCHANGED <<gstVars, taskVars, chanVars, loopVars, handlerVars, seenVars, sinkVars, ndiVars, pushVars, loopFailed,
                   contexts, taskCtx, otherCtx, csRet>>

(***************************************************************************)
(* AppSrc::prepare (appsrc.rs 491-530) with Task::prepare. It returns at   *)
(* the first error: of Context::acquire (495-501), before anything is      *)
(* written, or of Task::prepare (514-525), which fails on a Task that is   *)
(* already prepared, after the sender was replaced (510-511) and the       *)
(* handler prepared (512); the handle just acquired is dropped then.       *)
(***************************************************************************)
PrepareAcquire == ContextAcquire(contexts, UsedIds, settingsContext, settingsWait)

PrepareOutcomeNeverFails == "Ok"

PrepareOutcome ==
    IF PrepareAcquire.handle = None THEN "AcquireError"
    ELSE IF taskBound THEN "TaskPrepareError"
    ELSE "Ok"

AppSrcPrepare ==
    /\ CASE PrepareOutcome = "AcquireError" ->
              UNCHANGED <<sender, chan, hstate, taskBound, taskState, stopMark, stops, ssSinceReset,
                          capsSinceReset, segSinceReset, segSinceFlush, contexts, taskCtx>>
         [] PrepareOutcome = "TaskPrepareError" ->
              /\ ~TaskStateLocked
              /\ ~StateLocked                            \* try_lock().expect(..)
              /\ sender' = "Stale"                       \* its receiver was dropped
              /\ hstate' = PadHandlerPrepare(hstate, settingsCaps)
              /\ UNCHANGED <<chan, taskBound, taskState, stopMark, stops, ssSinceReset,
                             capsSinceReset, segSinceReset, segSinceFlush, contexts, taskCtx>>
         [] OTHER ->
              /\ ~TaskStateLocked
              /\ ~StateLocked                            \* try_lock().expect(..)
              /\ sender' = "Some"
              /\ chan' = <<>>
              /\ hstate' = PadHandlerPrepare(hstate, settingsCaps)
              /\ taskBound' = TRUE
              /\ taskState' = "Prepared"
              /\ contexts' = PrepareAcquire.reg
              /\ taskCtx' = PrepareAcquire.handle
              /\ stopMark' = None
              /\ stops' = 0
              /\ ssSinceReset' = FALSE
              /\ capsSinceReset' = FALSE
              /\ segSinceReset' = FALSE
              /\ segSinceFlush' = FALSE
    /\ UNCHANGED <<flushing, nextId, loopVars, configured_caps, lastBufId, flushMark,
                   settingsCaps, settingsContext, settingsWait, otherCtx>>

(***************************************************************************)
(* AppSrc::unprepare (appsrc.rs 532-539) with Task::unprepare              *)
(***************************************************************************)
AppSrcUnprepare ==
    /\ ~TaskStateLocked
    /\ sender' = "None"
    /\ taskBound' = FALSE
    /\ taskState' = "Stopped"
    /\ flushing' = FALSE
    /\ chan' = <<>>                                      \* the receiver is dropped
    /\ Unwind
    /\ contexts' = IF taskCtx = None THEN contexts ELSE ContextRelease(contexts, Unwrap(taskCtx))
    /\ taskCtx' = None
    /\ UNCHANGED <<nextId, handlerVars, seenVars, settingsCaps, settingsContext, settingsWait,
                   otherCtx>>

(***************************************************************************)
(* AppSrc::start (appsrc.rs 548-553) with Task::start                      *)
(***************************************************************************)
AppSrcStart ==
    /\ ~TaskStateLocked
    /\ taskBound
    /\ taskState \in {"Prepared", "Paused", "Stopped"}
    /\ taskState' = "Started"
    /\ loopPc' = IF loopPc \in EndedPcs THEN "idle" ELSE loopPc
    /\ UNCHANGED <<taskBound, flushing, chanVars, item, pushRes, handlerVars, seenVars,
                   settingsCaps>>

(***************************************************************************)
(* AppSrc::pause (appsrc.rs 555-560) with Task::pause                      *)
(***************************************************************************)
AppSrcPauseTearsDown ==
    /\ taskBound
    /\ taskState = "Started"
    /\ taskState' = "Paused"
    /\ Unwind
    /\ chan' = <<>>
    /\ hstate' = HandlerStateDefault
    /\ UNCHANGED <<taskBound, flushing, sender, nextId, configured_caps, seenVars, settingsCaps>>

AppSrcPause ==
    /\ ~TaskStateLocked
    /\ taskBound
    /\ taskState = "Started"
    /\ taskState' = "Paused"
    /\ UNCHANGED <<taskBound, flushing, chanVars, loopVars, handlerVars, seenVars,
                   settingsCaps>>

(***************************************************************************)
(* AppSrcTask::flush (appsrc.rs 342-347): purge the channel.               *)
(***************************************************************************)
FlushKeepsQueue(q) == q

Flush(q) == <<>>

(***************************************************************************)
(* AppSrcPadHandler::reset_state (appsrc.rs 171-173)                       *)
(***************************************************************************)
ResetStateKeepsCaps(h) == [HandlerStateDefault EXCEPT !.caps = h.caps]

ResetState(h) == HandlerStateDefault

(***************************************************************************)
(* AppSrcPadHandler::set_need_segment (appsrc.rs 175-177)                  *)
(***************************************************************************)
SetNeedSegmentNot(h) == h

SetNeedSegment(h) == [h EXCEPT !.need_segment = TRUE]

(***************************************************************************)
(* AppSrc::stop (appsrc.rs 541-546) with Task::stop, whose hook is         *)
(* AppSrcTask::stop (399-410): flush, then reset_state.                    *)
(***************************************************************************)
\* (Variant: stop() changes the state without waiting for the state lock.)
AppSrcStopUnlocked ==
    /\ taskBound
    /\ Unwind
    /\ chan' = Flush(chan)
    /\ hstate' = ResetState(hstate)
    /\ taskState' = "Stopped"
    /\ stopMark' = Some(nextId - 1)
    /\ stops' = IF stops < 2 THEN stops + 1 ELSE stops
    /\ ssSinceReset' = FALSE
    /\ capsSinceReset' = FALSE
    /\ segSinceReset' = FALSE
    /\ segSinceFlush' = FALSE
    /\ UNCHANGED <<taskBound, flushing, sender, nextId, configured_caps, lastBufId, flushMark,
                   settingsCaps>>

AppSrcStop ==
    /\ ~TaskStateLocked
    /\ taskBound
    /\ Unwind
    /\ chan' = Flush(chan)
    /\ hstate' = ResetState(hstate)
    /\ taskState' = "Stopped"
    /\ stopMark' = Some(nextId - 1)
    /\ stops' = IF stops < 2 THEN stops + 1 ELSE stops
    /\ ssSinceReset' = FALSE
    /\ capsSinceReset' = FALSE
    /\ segSinceReset' = FALSE
    /\ segSinceFlush' = FALSE
    /\ UNCHANGED <<taskBound, flushing, sender, nextId, configured_caps, lastBufId, flushMark,
                   settingsCaps>>

(***************************************************************************)
(* ElementImpl::change_state (appsrc.rs 699-741)                           *)
(***************************************************************************)
ChangeStateNullToReady ==
    /\ srcGst = "Null"
    /\ AppSrcPrepare
    /\ IF PrepareOutcome = "Ok"
       THEN /\ srcGst' = "Ready"
            /\ csRet' = [ret |-> "Success", posted |-> FALSE]
       ELSE /\ srcGst' = srcGst                          \* post_error_message(err)
            /\ csRet' = [ret |-> "StateChangeError", posted |-> TRUE]
    /\ UNCHANGED <<sinkVars, ndiVars, pushVars>>
    /\ loopFailed' = (loopFailed /\ PrepareOutcome # "Ok")

\* The same with parent_change_state returning an error: the element stays
\* in Null with whatever prepare() did.
ChangeStateNullToReadyParentFails ==
    /\ srcGst = "Null"
    /\ AppSrcPrepare
    /\ srcGst' = srcGst
    /\ csRet' = [ret |-> "StateChangeError", posted |-> PrepareOutcome # "Ok"]
    /\ UNCHANGED <<sinkVars, ndiVars, pushVars>>
    /\ loopFailed' = (loopFailed /\ PrepareOutcome # "Ok")

ChangeStateReadyToPaused ==
    /\ srcGst = "Ready"
    /\ srcGst' = "Paused"
    /\ csRet' = [ret |-> "NoPreroll", posted |-> FALSE]
    /\ UNCHANGED <<settingsCaps, taskVars, chanVars, loopVars, handlerVars, seenVars, sinkVars, ndiVars, pushVars, loopFailed,
                   ctxVars>>

ChangeStatePausedToPlaying ==
    /\ srcGst = "Paused"
    /\ AppSrcStart
    /\ srcGst' = "Playing"
    /\ csRet' = [ret |-> "Success", posted |-> FALSE]
    /\ UNCHANGED <<sinkVars, ndiVars, pushVars, loopFailed, ctxVars>>

ChangeStatePlayingToPaused ==
    /\ srcGst = "Playing"
    /\ AppSrcPause
    /\ srcGst' = "Paused"
    /\ csRet' = [ret |-> "NoPreroll", posted |-> FALSE]
    /\ UNCHANGED <<sinkVars, ndiVars, pushVars, loopFailed, ctxVars>>

ChangeStatePausedToReady ==
    /\ srcGst = "Paused"
    /\ AppSrcStop
    /\ srcGst' = "Ready"
    /\ csRet' = [ret |-> "Success", posted |-> FALSE]
    /\ UNCHANGED <<sinkVars, ndiVars, pushVars, loopFailed, ctxVars>>

ChangeStateSrcReadyToNull ==
    /\ srcGst = "Ready"
    /\ AppSrcUnprepare
    /\ srcGst' = "Null"
    /\ csRet' = [ret |-> "Success", posted |-> FALSE]
    /\ UNCHANGED <<sinkVars, ndiVars, pushVars, loopFailed>>

\* ReadyToNull step by step: unprepare() clears the sender (535), which takes
\* no lock of the Task, and then calls Task::unprepare (536).
UnprepareClearSender ==
    /\ srcGst = "Ready"
    /\ srcGst' = "ReadyToNull"
    /\ sender' = "None"
    /\ UNCHANGED <<settingsCaps, taskVars, chan, nextId, loopVars, handlerVars, seenVars,
                   sinkVars, ndiVars, pushVars, loopFailed, ctxVars, csRet>>

UnprepareTask ==
    /\ srcGst = "ReadyToNull"
    /\ AppSrcUnprepare
    /\ srcGst' = "Null"
    /\ csRet' = [ret |-> "Success", posted |-> FALSE]
    /\ UNCHANGED <<sinkVars, ndiVars, pushVars, loopFailed>>

(***************************************************************************)
(* AppSrcPadHandler::src_event (appsrc.rs 243-269): flush-start and        *)
(* flush-stop go to the Task; Task::flush_start runs the hook              *)
(* AppSrcTask::flush_start (412-423): flush, then set_need_segment.        *)
(***************************************************************************)
SrcEventFlushStart ==
    /\ taskBound
    /\ ~flushing
    /\ flushing' = TRUE
    /\ Unwind
    /\ chan' = Flush(chan)
    /\ hstate' = SetNeedSegment(hstate)
    /\ segSinceFlush' = FALSE
    /\ flushMark' = nextId - 1
    /\ UNCHANGED <<taskBound, taskState, sender, nextId, configured_caps, lastBufId, stopMark, stops,
                   ssSinceReset, capsSinceReset, segSinceReset, gstVars, sinkVars, ndiVars, pushVars, loopFailed, ctxVars, csRet>>

SrcEventFlushStop ==
    /\ taskBound
    /\ flushing
    /\ flushing' = FALSE
    /\ UNCHANGED <<taskBound, taskState, chanVars, loopVars, handlerVars, seenVars, gstVars,
                   sinkVars, ndiVars, pushVars, loopFailed, ctxVars, csRet>>

(***************************************************************************)
(* AppSrcTask::iterate (appsrc.rs 349-397), AppSrcPadHandler::push_item    *)
(* (208-237) and push_prelude (179-206). A step runs from the point the    *)
(* future was suspended at to the next push it awaits, that push included. *)
(***************************************************************************)
\* push_item after the prelude (218-236): a buffer is pushed on the pad; for
\* the EOS item push_item returns Err(Eos) and iterate pushes the EOS event.
PushItemPhase ==
    /\ item' = None
    /\ IF Unwrap(item).kind = "Buffer"
       THEN /\ loopPc' = "sent_item"
            /\ \E r \in FlowResults : pushRes' = r
            /\ lastBufId' = Unwrap(item).id
       ELSE /\ loopPc' = "sent_eos"
            /\ pushRes' = "none"
            /\ lastBufId' = lastBufId
    /\ UNCHANGED <<segSinceReset, segSinceFlush>>

\* push_prelude, 199-205: the segment event if need_segment.
SegmentPhaseUnconditional(need_segment) ==
    /\ loopPc' = "sent_segment"
    /\ segSinceReset' = TRUE
    /\ segSinceFlush' = TRUE
    /\ UNCHANGED <<item, pushRes, lastBufId>>

SegmentPhase(need_segment) ==
    IF need_segment
    THEN /\ loopPc' = "sent_segment"
         /\ segSinceReset' = TRUE
         /\ segSinceFlush' = TRUE
         /\ UNCHANGED <<item, pushRes, lastBufId>>
    ELSE PushItemPhase

\* iterate, 352-364: self.receiver.next().await
IterateNextNewest ==
    /\ LoopRunnable
    /\ loopPc = "idle"
    /\ chan # <<>>
    /\ item' = Some(chan[Len(chan)])
    /\ chan' = SubSeq(chan, 1, Len(chan) - 1)
    /\ loopPc' = "got_item"
    /\ UNCHANGED <<sender, nextId, pushRes, gstVars, taskVars, handlerVars, seenVars, sinkVars, ndiVars, pushVars, ctxVars, csRet>>
    /\ loopFailed' = (loopFailed \/ loopPc' \in ErrorPostedPcs)

IterateNext ==
    /\ LoopRunnable
    /\ loopPc = "idle"
    /\ IF chan # <<>>
       THEN /\ item' = Some(Head(chan))
            /\ chan' = Tail(chan)
            /\ loopPc' = "got_item"
       ELSE /\ sender # "Some"                           \* "SrcPad channel aborted"
            /\ loopPc' = "ended_Aborted"
            /\ UNCHANGED <<item, chan>>
    /\ UNCHANGED <<sender, nextId, pushRes, gstVars, taskVars, handlerVars, seenVars, sinkVars, ndiVars, pushVars, ctxVars, csRet>>
    /\ loopFailed' = (loopFailed \/ loopPc' \in ErrorPostedPcs)

\* push_prelude, 180-188: lock the state; the stream-start if need_initial_events.
PushPreludeBegin ==
    /\ LoopRunnable
    /\ loopPc = "got_item"
    /\ IF hstate.need_initial_events
       THEN /\ loopPc' = "sent_stream_start"
            /\ ssSinceReset' = TRUE
            /\ UNCHANGED <<item, pushRes, lastBufId, segSinceReset, segSinceFlush>>
       ELSE /\ SegmentPhase(hstate.need_segment)
            /\ UNCHANGED ssSinceReset
    /\ UNCHANGED <<handlerVars, capsSinceReset, stopMark, stops, flushMark, chanVars, gstVars, taskVars, sinkVars, ndiVars, pushVars, loopFailed, ctxVars, csRet>>

\* push_prelude, 190-197: the caps event if the state has caps.
PushPreludeAfterStreamStart ==
    /\ LoopRunnable
    /\ loopPc = "sent_stream_start"
    /\ IF hstate.caps # None
       THEN /\ loopPc' = "sent_caps"
            /\ capsSinceReset' = TRUE
            /\ UNCHANGED <<hstate, item, pushRes, lastBufId, segSinceReset, segSinceFlush>>
       ELSE /\ hstate' = [hstate EXCEPT !.need_initial_events = FALSE]
            /\ SegmentPhase(hstate.need_segment)
            /\ UNCHANGED capsSinceReset
    /\ UNCHANGED <<configured_caps, ssSinceReset, stopMark, stops, flushMark, chanVars, gstVars, taskVars, sinkVars, ndiVars, pushVars, loopFailed, ctxVars, csRet>>

\* push_prelude, 193-197
PushPreludeAfterCaps ==
    /\ LoopRunnable
    /\ loopPc = "sent_caps"
    /\ configured_caps' = hstate.caps
    /\ hstate' = [hstate EXCEPT !.need_initial_events = FALSE]
    /\ SegmentPhase(hstate.need_segment)
    /\ UNCHANGED <<ssSinceReset, capsSinceReset, stopMark, stops, flushMark, chanVars, gstVars, taskVars, sinkVars, ndiVars, pushVars, loopFailed, ctxVars, csRet>>

\* push_prelude, 204-206, then push_item's match.
PushPreludeAfterSegment ==
    /\ LoopRunnable
    /\ loopPc = "sent_segment"
    /\ hstate' = [hstate EXCEPT !.need_segment = FALSE]
    /\ PushItemPhase
    /\ UNCHANGED <<configured_caps, ssSinceReset, capsSinceReset, stopMark, stops, flushMark, chanVars, gstVars,
                   taskVars, sinkVars, ndiVars, pushVars, loopFailed, ctxVars, csRet>>

\* (Variant: Flushing is handled by the catch-all arm, as any other error.)
IterateAfterPushFlushingPosts ==
    /\ LoopRunnable
    /\ loopPc = "sent_item"
    /\ loopPc' = CASE pushRes = "Ok"            -> "idle"
                   [] pushRes = "Eos"           -> "sent_eos"
                   [] pushRes = "NotNegotiated" -> "ended_NotNegotiated"
                   [] OTHER                     -> "ended_Error"
    /\ pushRes' = "none"
    /\ UNCHANGED <<item, chanVars, gstVars, taskVars, handlerVars, seenVars, sinkVars, ndiVars, pushVars, ctxVars, csRet>>
    /\ loopFailed' = (loopFailed \/ loopPc' \in ErrorPostedPcs)

\* iterate, 371-394: the match on what pad.push returned; res.map(drop) is
\* what iterate returns, and the ending records it.
IterateAfterPush ==
    /\ LoopRunnable
    /\ loopPc = "sent_item"
    /\ loopPc' = CASE pushRes = "Ok"            -> "idle"
                   [] pushRes = "Eos"           -> "sent_eos"
                   [] pushRes = "Flushing"      -> "ended_Flushing"
                   [] pushRes = "NotNegotiated" -> "ended_NotNegotiated"
                   [] OTHER                     -> "ended_Error"
    /\ pushRes' = "none"
    /\ UNCHANGED <<item, chanVars, gstVars, taskVars, handlerVars, seenVars, sinkVars, ndiVars, pushVars, ctxVars, csRet>>
    /\ loopFailed' = (loopFailed \/ loopPc' \in ErrorPostedPcs)

\* iterate, 375-379 and 394: the EOS event is pushed, iterate returns Err(Eos).
IterateAfterEos ==
    /\ LoopRunnable
    /\ loopPc = "sent_eos"
    /\ loopPc' = "ended_Eos"
    /\ UNCHANGED <<item, pushRes, chanVars, gstVars, taskVars, handlerVars, seenVars, sinkVars, ndiVars, pushVars, loopFailed, ctxVars, csRet>>

(***************************************************************************)
(* The NDI sink combiner (net/ndi/src/ndisinkcombiner/imp.rs).             *)
(*                                                                         *)
(* A buffer is [id, rt, empty]. For a video buffer rt is the running time  *)
(* of its PTS in the video segment; for an audio buffer rt is the running  *)
(* time of its end, None when the buffer has no PTS. Segments are in time  *)
(* format, video buffers have a PTS and a duration, and every buffer lies  *)
(* inside its segment.                                                     *)
(***************************************************************************)
Rts == 1..MaxRt
OptRt == {None} \cup {Some(t) : t \in Rts}
PadNames == {"video", "audio"}

StateNew == [video_info |-> FALSE, audio_info |-> FALSE,
             current_video_buffer |-> None, current_audio_buffers |-> <<>>]

PadEmpty == [data |-> <<>>, clipped |-> None, eos |-> FALSE]

\* clip() (204-307): "pass" is Some(buffer), "drop" is None, "panic" is the
\* unreachable!() for an audio buffer that comes without audio caps.
Clip(st, pad, b) ==
    IF b.rt = None THEN "pass"                  \* "Only buffers with PTS supported"
    ELSE IF st = None THEN "drop"
    ELSE IF pad = "audio" /\ ~Unwrap(st).audio_info THEN "panic"
    ELSE "pass"

\* The pad clipping its oldest buffers until one passes: what peek_buffer
\* and drop_buffer do when the pad has no clipped buffer at hand. clips says
\* that clip() was called.
RECURSIVE ClipBufferUnlocked(_, _, _)
ClipBufferUnlocked(st, pad, p) ==
    IF p.clipped # None \/ p.data = <<>>
    THEN [pad |-> p, panic |-> FALSE, clips |-> FALSE, ret |-> "none"]
    ELSE LET b == Head(p.data)
             r == Clip(st, pad, b)
             rest == [p EXCEPT !.data = Tail(@)]
         IN  CASE r = "panic" -> [pad |-> rest, panic |-> TRUE, clips |-> TRUE, ret |-> "none"]
               [] r = "drop"  -> [ClipBufferUnlocked(st, pad, rest) EXCEPT
                                     !.clips = TRUE, !.ret = "drop"]
               [] OTHER       -> [pad |-> [rest EXCEPT !.clipped = Some(b)],
                                  panic |-> FALSE, clips |-> TRUE, ret |-> "pass"]

PeekBuffer(st, pad, p) == ClipBufferUnlocked(st, pad, p)

\* (Variant: the pad drops the clipped buffer and clips the next one at once.)
DropBufferClipsNext(st, pad, p) ==
    LET r == ClipBufferUnlocked(st, pad, [p EXCEPT !.clipped = None])
    IN  IF p.clipped = None THEN [r EXCEPT !.pad.clipped = None] ELSE r

\* drop_buffer: the pad pops its clipped buffer, clipping one first when it
\* has none.
DropBuffer(st, pad, p) ==
    LET r == ClipBufferUnlocked(st, pad, p)
    IN  [r EXCEPT !.pad.clipped = None]

IsEos(p) == p.eos /\ p.data = <<>> /\ p.clipped = None

\* The locals of an aggregate() call that is not running.
AggIdle == /\ vPeek' = None /\ aPeek' = None /\ cur' = None /\ vEnd' = None

\* AggregatorImpl::start (181-193)
NdiStartKeepsState ==
    /\ aggPc = "idle"
    /\ stateLock = "free"
    /\ state' = IF state = None THEN Some(StateNew) ELSE state
    /\ finished' = <<>>
    /\ takenV' = <<>>
    /\ takenA' = <<>>
    /\ UNCHANGED <<stateLock, audio_pad, pads, aggPc, aggRet, vPeek, aPeek, cur, vEnd,
                   nextVid, nextAud, evRet, sinkVars, srcVars>>

NdiStart ==
    /\ aggPc = "idle"
    /\ stateLock = "free"
    /\ state' = Some(StateNew)
    /\ finished' = <<>>
    /\ takenV' = <<>>
    /\ takenA' = <<>>
    /\ UNCHANGED <<stateLock, audio_pad, pads, aggPc, aggRet, vPeek, aPeek, cur, vEnd,
                   nextVid, nextAud, evRet, sinkVars, srcVars>>

\* AggregatorImpl::stop (195-202)
NdiStop ==
    /\ aggPc = "idle"
    /\ stateLock = "free"
    /\ state' = None
    /\ UNCHANGED <<stateLock, audio_pad, pads, aggPc, aggRet, vPeek, aPeek, cur, vEnd,
                   finished, nextVid, nextAud, takenV, takenA, evRet, sinkVars, srcVars>>

\* create_new_pad (150-179): the one audio request pad.
CreateNewPad ==
    /\ aggPc = "idle"
    /\ ~audio_pad
    /\ audio_pad' = TRUE
    /\ pads' = [pads EXCEPT !["audio"] = PadEmpty]
    /\ UNCHANGED <<state, stateLock, aggPc, aggRet, vPeek, aPeek, cur, vEnd,
                   finished, nextVid, nextAud, takenV, takenA, evRet, sinkVars, srcVars>>

\* release_pad (140-148)
ReleasePad ==
    /\ aggPc = "idle"
    /\ audio_pad
    /\ audio_pad' = FALSE
    /\ pads' = [pads EXCEPT !["audio"] = PadEmpty]
    /\ UNCHANGED <<state, stateLock, aggPc, aggRet, vPeek, aPeek, cur, vEnd,
                   finished, nextVid, nextAud, takenV, takenA, evRet, sinkVars, srcVars>>

\* Upstream queues a video buffer on the video pad.
VideoBufferArrives ==
    /\ nextVid <= MaxVideo
    /\ ~pads["video"].eos
    /\ \E t \in Rts :
         pads' = [pads EXCEPT !["video"].data =
                     Append(@, [id |-> nextVid, rt |-> Some(t), empty |-> FALSE])]
    /\ nextVid' = nextVid + 1
    /\ UNCHANGED <<state, stateLock, audio_pad, aggPc, aggRet, vPeek, aPeek, cur, vEnd,
                   finished, nextAud, takenV, takenA, evRet, sinkVars, srcVars>>

\* Upstream queues an audio buffer, empty (a gap) or not, on the audio pad.
AudioBufferArrives ==
    /\ audio_pad
    /\ nextAud <= MaxAudio
    /\ ~pads["audio"].eos
    /\ \E t \in OptRt, e \in BOOLEAN :
         pads' = [pads EXCEPT !["audio"].data =
                     Append(@, [id |-> nextAud, rt |-> t, empty |-> e])]
    /\ nextAud' = nextAud + 1
    /\ UNCHANGED <<state, stateLock, audio_pad, aggPc, aggRet, vPeek, aPeek, cur, vEnd,
                   finished, nextVid, takenV, takenA, evRet, sinkVars, srcVars>>

\* A pad receives EOS.
PadEos ==
    /\ \E p \in PadNames :
         /\ p = "audio" => audio_pad
         /\ ~pads[p].eos
         /\ pads' = [pads EXCEPT ![p].eos = TRUE]
    /\ UNCHANGED <<state, stateLock, audio_pad, aggPc, aggRet, vPeek, aPeek, cur, vEnd,
                   finished, nextVid, nextAud, takenV, takenA, evRet, sinkVars, srcVars>>

\* sink_event (527-590) with a caps event on pad p; parses says whether
\* VideoInfo/AudioInfo::from_caps succeeds. Without a state the event is
\* rejected; otherwise the info is stored and the parent class decides.
NdiSinkEventCaps ==
    /\ stateLock = "free"
    /\ \E p \in PadNames, parses \in BOOLEAN :
         /\ p = "audio" => audio_pad
         /\ IF state = None
            THEN /\ evRet' = "false"
                 /\ state' = state
            ELSE IF ~parses
            THEN /\ evRet' = "false"
                 /\ state' = state
            ELSE /\ evRet' = "parent"
                 /\ state' = IF p = "video"
                             THEN Some([Unwrap(state) EXCEPT !.video_info = TRUE])
                             ELSE Some([Unwrap(state) EXCEPT !.audio_info = TRUE])
    /\ UNCHANGED <<stateLock, audio_pad, pads, aggPc, aggRet, vPeek, aPeek, cur, vEnd,
                   finished, nextVid, nextAud, takenV, takenA, sinkVars, srcVars>>

\* aggregate() returns r.
AggReturn(r) ==
    /\ aggRet' = [val |-> r, downstream |-> FALSE]
    /\ aggPc' = "idle"
    /\ AggIdle

\* aggregate(), first part (308-372): the peeks on both pads, made before
\* the state lock is taken; each may call clip(), which takes the lock.
AggregatePeek ==
    /\ aggPc = "idle"
    /\ stateLock = "free"
    /\ LET pv == PeekBuffer(state, "video", pads["video"])
           pa == PeekBuffer(state, "audio", pads["audio"])
           vb == pv.pad.clipped
           ab == pa.pad.clipped
           afterVideo == [pads EXCEPT !["video"] = pv.pad]
           afterAudio == [afterVideo EXCEPT !["audio"] = pa.pad]
       IN  IF vb = None /\ ~IsEos(pv.pad)
           THEN /\ pads' = afterVideo          \* "Waiting for video buffer"
                /\ AggReturn("NeedData")
                /\ stateLock' = stateLock
           ELSE IF ~audio_pad
           THEN /\ pads' = afterVideo
                /\ vPeek' = vb /\ aPeek' = None
                /\ aggPc' = "lock"
                /\ UNCHANGED <<aggRet, cur, vEnd, stateLock>>
           ELSE IF pa.panic
           THEN /\ pads' = afterAudio
                /\ aggPc' = "panicked"
                /\ aggRet' = [val |-> "Panic", downstream |-> FALSE]
                /\ stateLock' = "poisoned"
                /\ UNCHANGED <<vPeek, aPeek, cur, vEnd>>
           ELSE /\ stateLock' = stateLock
                /\ IF ab = None
                   THEN IF ~IsEos(pa.pad)
                        THEN /\ pads' = afterAudio       \* "Waiting for audio buffer"
                             /\ AggReturn("NeedData")
                        ELSE /\ pads' = afterAudio
                             /\ vPeek' = vb /\ aPeek' = None
                             /\ aggPc' = "lock"
                             /\ UNCHANGED <<aggRet, cur, vEnd>>
                   ELSE IF Unwrap(ab).empty
                   THEN /\ pads' = [afterAudio EXCEPT \* "Skip empty/gap audio buffer"
                               !["audio"] = DropBuffer(state, "audio", pa.pad).pad]
                        /\ AggReturn("NeedData")
                   ELSE /\ pads' = afterAudio
                        /\ vPeek' = vb /\ aPeek' = ab
                        /\ aggPc' = "lock"
                        /\ UNCHANGED <<aggRet, cur, vEnd>>
    /\ UNCHANGED <<state, audio_pad, finished, nextVid, nextAud, takenV, takenA, evRet,
                   sinkVars, srcVars>>

\* let mut state_storage = self.state.lock().unwrap() (374)
AggregateLock ==
    /\ aggPc = "lock"
    /\ stateLock = "free"
    /\ stateLock' = "agg"
    /\ aggPc' = "body"
    /\ UNCHANGED <<state, audio_pad, pads, aggRet, vPeek, aPeek, cur, vEnd, finished,
                   nextVid, nextAud, takenV, takenA, evRet, sinkVars, srcVars>>

\* Whether the audio buffer a goes with the video buffer that is being
\* finished (470-474): vend is current_video_running_time_end.
IncludesAlways(a, vend) == TRUE

Includes(a, vend) ==
    IF a.rt = None \/ vend = None THEN TRUE ELSE Unwrap(a.rt) <= Unwrap(vend)

DummyBuffer == [video |-> 0, audio |-> <<>>]

\* (Variant: the held video buffer is not looked at.)
AllDoneWhateverHeld(held, ap) == ap = None

\* "All pads are EOS and no buffers are queued, finishing" (399-406), known
\* once no video buffer was peeked.
AllDone(held, ap) == held = None /\ ap = None

\* (Variant: a video buffer is finished as soon as it is seen, none is held.)
AggregateBodyOutcomeNoQueue(st, vp, ap, mappable) ==
    IF st = None THEN [kind |-> "Flushing", cur |-> None, vEnd |-> None]
    ELSE IF vp # None
    THEN [kind |-> "Finish", cur |-> Some([video |-> Unwrap(vp).id, audio |-> <<>>]),
          vEnd |-> None]
    ELSE [kind |-> "Eos", cur |-> None, vEnd |-> None]

\* What aggregate() decides under the lock (375-500) from the state and the
\* two peeked buffers; mappable says whether the video segment has a
\* position for the audio buffer's running time (429-434).
AggregateBodyOutcome(st, vp, ap, mappable) ==
    IF st = None THEN [kind |-> "Flushing", cur |-> None, vEnd |-> None]
    ELSE
    LET held == Unwrap(st).current_video_buffer
        first == IF vp # None
                 THEN IF held = None
                      THEN [kind |-> "StoreFirst", cur |-> None, vEnd |-> None]
                      ELSE [kind |-> "Go",
                            cur |-> Some([video |-> Unwrap(held).id, audio |-> <<>>]),
                            vEnd |-> Unwrap(vp).rt]
                 ELSE IF AllDone(held, ap)
                 THEN [kind |-> "Eos", cur |-> None, vEnd |-> None]
                 ELSE IF held = None
                 THEN IF Unwrap(ap).rt = None         \* to_running_time(..).unwrap()
                      THEN [kind |-> "Panic", cur |-> None, vEnd |-> None]
                      ELSE IF ~mappable
                      THEN [kind |-> "Eos", cur |-> None, vEnd |-> None]
                      ELSE [kind |-> "Go", cur |-> Some(DummyBuffer), vEnd |-> None]
                 ELSE [kind |-> "Go",
                       cur |-> Some([video |-> Unwrap(held).id, audio |-> <<>>]),
                       vEnd |-> None]
    IN  IF first.kind # "Go" THEN first
        ELSE IF ap = None THEN [first EXCEPT !.kind = "Finish"]
        ELSE IF ~Unwrap(st).audio_info               \* "Have no audio caps"
        THEN [kind |-> "NotNegotiated", cur |-> None, vEnd |-> None]
        ELSE IF Includes(Unwrap(ap), first.vEnd)
        THEN [first EXCEPT !.kind = "Include"]
        ELSE [first EXCEPT !.kind = "Finish"]

\* aggregate(), under the lock, up to its first pad operation or return.
AggregateBody ==
    /\ aggPc = "body"
    /\ \E mappable \in BOOLEAN :
         LET o == AggregateBodyOutcome(state, vPeek, aPeek, mappable)
         IN  CASE o.kind \in {"Flushing", "Eos", "NotNegotiated"} ->
                    /\ AggReturn(o.kind)
                    /\ stateLock' = "free"
                    /\ UNCHANGED <<state, takenV, takenA>>
               [] o.kind = "Panic" ->
                    /\ aggPc' = "panicked"
                    /\ aggRet' = [val |-> "Panic", downstream |-> FALSE]
                    /\ stateLock' = "poisoned"
                    /\ UNCHANGED <<state, takenV, takenA, vPeek, aPeek, cur, vEnd>>
               [] o.kind = "StoreFirst" ->       \* "First video buffer, waiting for second"
                    /\ state' = Some([Unwrap(state) EXCEPT !.current_video_buffer = vPeek])
                    /\ takenV' = Append(takenV, Unwrap(vPeek).id)
                    /\ stateLock' = "free"       \* drop(state_storage)
                    /\ aggPc' = "drop_first"
                    /\ UNCHANGED <<takenA, aggRet, vPeek, aPeek, cur, vEnd>>
               [] o.kind = "Include" ->
                    /\ state' = Some([Unwrap(state) EXCEPT !.current_audio_buffers =
                                           Append(@, Unwrap(aPeek).id)])
                    /\ takenA' = Append(takenA, Unwrap(aPeek).id)
                    /\ cur' = o.cur /\ vEnd' = o.vEnd
                    /\ aggPc' = "drop_audio"
                    /\ UNCHANGED <<stateLock, takenV, aggRet, vPeek, aPeek>>
               [] OTHER ->
                    /\ cur' = o.cur /\ vEnd' = o.vEnd
                    /\ aggPc' = "finish"
                    /\ UNCHANGED <<state, stateLock, takenV, takenA, aggRet, vPeek, aPeek>>
    /\ UNCHANGED <<audio_pad, pads, finished, nextVid, nextAud, evRet,
                   sinkVars, srcVars>>

\* audio_pad.drop_buffer() (488), the guard alive; a clip() called from
\* here would wait for the lock this thread holds. Then NEED_DATA while
\* there is still video data (492-494).
AggregateDropAudio ==
    /\ aggPc = "drop_audio"
    /\ LET d == DropBuffer(state, "audio", pads["audio"])
       IN  IF d.clips /\ stateLock = "agg"
           THEN /\ aggPc' = "deadlocked"
                /\ UNCHANGED <<pads, stateLock, aggRet, vPeek, aPeek, cur, vEnd>>
           ELSE /\ pads' = [pads EXCEPT !["audio"] = d.pad]
                /\ IF vEnd # None
                   THEN /\ AggReturn("NeedData")
                        /\ stateLock' = "free"
                   ELSE /\ aggPc' = "finish"
                        /\ UNCHANGED <<stateLock, aggRet, vPeek, aPeek, cur, vEnd>>
    /\ UNCHANGED <<state, audio_pad, finished, nextVid, nextAud, takenV, takenA, evRet,
                   sinkVars, srcVars>>

\* (Variant: the accumulated audio is attached but not taken.)
AggregateFinishKeepsAudio ==
    /\ aggPc = "finish"
    /\ cur' = Some([Unwrap(cur) EXCEPT !.audio = Unwrap(state).current_audio_buffers])
    /\ state' = Some([Unwrap(state) EXCEPT
                        !.current_video_buffer = IF vEnd # None THEN vPeek ELSE None])
    /\ takenV' = IF vEnd # None THEN Append(takenV, Unwrap(vPeek).id) ELSE takenV
    /\ stateLock' = "free"
    /\ aggPc' = IF vEnd # None THEN "drop_next" ELSE "finish_buffer"
    /\ UNCHANGED <<audio_pad, pads, aggRet, vPeek, aPeek, vEnd, finished, nextVid, nextAud,
                   takenA, evRet, sinkVars, srcVars>>

\* The accumulated audio is taken and attached, the next video buffer
\* becomes the held one, the guard is dropped (502-516).
AggregateFinish ==
    /\ aggPc = "finish"
    /\ cur' = Some([Unwrap(cur) EXCEPT !.audio = Unwrap(state).current_audio_buffers])
    /\ state' = Some([Unwrap(state) EXCEPT
                        !.current_audio_buffers = <<>>,
                        !.current_video_buffer = IF vEnd # None THEN vPeek ELSE None])
    /\ takenV' = IF vEnd # None THEN Append(takenV, Unwrap(vPeek).id) ELSE takenV
    /\ stateLock' = "free"
    /\ aggPc' = IF vEnd # None THEN "drop_next" ELSE "finish_buffer"
    /\ UNCHANGED <<audio_pad, pads, aggRet, vPeek, aPeek, vEnd, finished, nextVid, nextAud,
                   takenA, evRet, sinkVars, srcVars>>

\* (Variant: the stored video buffer is left on the pad.)
AggregateDropVideoNot ==
    /\ aggPc \in {"drop_first", "drop_next"}
    /\ IF aggPc = "drop_first"
       THEN AggReturn("NeedData")
       ELSE /\ aggPc' = "finish_buffer"
            /\ UNCHANGED <<aggRet, vPeek, aPeek, cur, vEnd>>
    /\ UNCHANGED <<state, stateLock, audio_pad, pads, finished, nextVid, nextAud, takenV,
                   takenA, evRet, sinkVars, srcVars>>

\* self.video_pad.drop_buffer() (389, 512), after drop(state_storage).
AggregateDropVideo ==
    /\ aggPc \in {"drop_first", "drop_next"}
    /\ LET d == DropBuffer(state, "video", pads["video"])
       IN  IF d.clips /\ stateLock = "agg"
           THEN /\ aggPc' = "deadlocked"
                /\ UNCHANGED <<pads, aggRet, vPeek, aPeek, cur, vEnd>>
           ELSE /\ pads' = [pads EXCEPT !["video"] = d.pad]
                /\ IF aggPc = "drop_first"
                   THEN AggReturn("NeedData")
                   ELSE /\ aggPc' = "finish_buffer"
                        /\ UNCHANGED <<aggRet, vPeek, aPeek, cur, vEnd>>
    /\ UNCHANGED <<state, stateLock, audio_pad, finished, nextVid, nextAud, takenV, takenA,
                   evRet, sinkVars, srcVars>>

\* agg.finish_buffer(current_video_buffer) (524): aggregate() returns what
\* downstream returned.
AggregateFinishBuffer ==
    /\ aggPc = "finish_buffer"
    /\ finished' = Append(finished, Unwrap(cur))
    /\ \E r \in FlowResults : aggRet' = [val |-> r, downstream |-> TRUE]
    /\ aggPc' = "idle"
    /\ AggIdle
    /\ UNCHANGED <<state, stateLock, audio_pad, pads, nextVid, nextAud, takenV, takenA,
                   evRet, sinkVars, srcVars>>

(***************************************************************************)
(* The state after construction: ObjectSubclass::with_class of both        *)
(* elements (appsrc.rs 628-641, imp.rs 240-250), every field at its         *)
(* Default.                                                                *)
(***************************************************************************)
Init ==
    /\ srcGst = "Null"
    /\ settingsCaps = None
    /\ taskBound = FALSE
    /\ taskState = "Stopped"
    /\ flushing = FALSE
    /\ sender = "None"
    /\ chan = <<>>
    /\ nextId = 1
    /\ item = None
    /\ loopPc = "idle"
    /\ pushRes = "none"
    /\ hstate = HandlerStateDefault
    /\ configured_caps = None
    /\ lastBufId = 0
    /\ stopMark = None
    /\ ssSinceReset = FALSE
    /\ capsSinceReset = FALSE
    /\ segSinceReset = FALSE
    /\ segSinceFlush = FALSE
    /\ flushMark = 0
    /\ stops = 0
    /\ settingsContext = ""
    /\ settingsWait = 0
    /\ contexts = NoContexts
    /\ taskCtx = None
    /\ otherCtx = None
    /\ csRet = [ret |-> "none", posted |-> FALSE]
    /\ pbPc = "idle"
    /\ pbRet = "none"
    /\ loopFailed = FALSE
    /\ inner = InnerDefault
    /\ lock = "free"
    /\ pc = [c \in Callers |-> "idle"]
    /\ arg = [c \in Callers |-> NoArg]
    /\ subq = 0
    /\ fsForeign = FALSE
    /\ fsCtx = FALSE
    /\ sinkGst = "Null"
    /\ lcPc = "idle"
    /\ sinkStopped = FALSE
    /\ state = None
    /\ stateLock = "free"
    /\ audio_pad = FALSE
    /\ pads = [p \in PadNames |-> PadEmpty]
    /\ aggPc = "idle"
    /\ aggRet = [val |-> "none", downstream |-> FALSE]
    /\ vPeek = None
    /\ aPeek = None
    /\ cur = None
    /\ vEnd = None
    /\ finished = <<>>
    /\ nextVid = 1
    /\ nextAud = 1
    /\ takenV = <<>>
    /\ takenA = <<>>
    /\ evRet = "none"

SinkNext ==
    \/ \E c \in Callers : SinkChainCall(c)
    \/ \E c \in Callers : SinkChainLock(c)
    \/ \E c \in Callers : SinkChainBody(c)
    \/ \E c \in Callers : SinkChainReturn(c)
    \/ \E c \in Callers : SinkEventSerializedCall(c)
    \/ \E c \in Callers : SinkEventSerializedOther(c)
    \/ \E c \in Callers : SinkEventSerializedLock(c)
    \/ \E c \in Callers : SinkEventSerializedBody(c)
    \/ \E c \in Callers : SinkEventSerializedPost(c)
    \/ \E c \in Callers : SinkEventFlushStartOnContext(c)
    \/ \E c \in Callers : SinkEventFlushStartCall(c)
    \/ \E c \in Callers : FlushStartLock(c)
    \/ \E c \in Callers : FlushStartBody(c)
    \/ SubTaskLock
    \/ SubTaskBody
    \/ ChangeStateCall
    \/ ChangeStateReadyToNull
    \/ HandlerLifecycleLock
    \/ HandlerPrepareBody
    \/ HandlerStartBody
    \/ HandlerStopBody

SinkSpec == Init /\ [][SinkNext]_vars

(***************************************************************************)
(* The sink with its scheduling: whoever holds the handler's Mutex         *)
(* finishes its critical section and drops the guard (no callback awaits   *)
(* anything else while it holds the lock), and the Context keeps polling a *)
(* queued sub-task, which takes the Mutex at one of the times it is free.  *)
(***************************************************************************)
SinkFairness ==
    /\ \A c \in Callers : WF_vars(SinkChainBody(c))
    /\ \A c \in Callers : WF_vars(SinkEventSerializedBody(c))
    /\ \A c \in Callers : WF_vars(FlushStartBody(c))
    /\ WF_vars(HandlerPrepareBody)
    /\ WF_vars(HandlerStartBody)
    /\ WF_vars(HandlerStopBody)
    /\ SF_vars(SubTaskLock)
    /\ WF_vars(SubTaskBody)

SinkLiveSpec == Init /\ [][SinkNext]_vars /\ SinkFairness

(***************************************************************************)
(* The state-change thread, blocked in prepare/start/stop on the Mutex, is *)
(* woken when the Mutex is released and takes it at one of the times it is *)
(* free.                                                                   *)
(***************************************************************************)
LifecycleFairness == SF_vars(HandlerLifecycleLock)

SinkLifecycleSpec == Init /\ [][SinkNext]_vars /\ SinkFairness /\ LifecycleFairness

SrcNext ==
    \/ SetPropertyCaps
    \/ AppSrcPushBuffer
    \/ AppSrcEndOfStream
    \/ ChangeStateNullToReady
    \/ ChangeStateReadyToPaused
    \/ ChangeStatePausedToPlaying
    \/ ChangeStatePlayingToPaused
    \/ ChangeStatePausedToReady
    \/ ChangeStateSrcReadyToNull
    \/ SrcEventFlushStart
    \/ SrcEventFlushStop
    \/ IterateNext
    \/ PushPreludeBegin
    \/ PushPreludeAfterStreamStart
    \/ PushPreludeAfterCaps
    \/ PushPreludeAfterSegment
    \/ IterateAfterPush
    \/ IterateAfterEos

SrcSpec == Init /\ [][SrcNext]_vars

(***************************************************************************)
(* The appsrc with push_buffer and unprepare running step by step, so that *)
(* a state change can fall between the steps of a push_buffer.             *)
(***************************************************************************)
RaceNext ==
    \/ SetPropertyCaps
    \/ PushBufferCheck
    \/ PushBufferSend
    \/ AppSrcEndOfStream
    \/ ChangeStateNullToReady
    \/ ChangeStateNullToReadyParentFails
    \/ ChangeStateReadyToPaused
    \/ ChangeStatePausedToPlaying
    \/ ChangeStatePlayingToPaused
    \/ ChangeStatePausedToReady
    \/ UnprepareClearSender
    \/ UnprepareTask
    \/ SrcEventFlushStart
    \/ SrcEventFlushStop
    \/ IterateNext
    \/ PushPreludeBegin
    \/ PushPreludeAfterStreamStart
    \/ PushPreludeAfterCaps
    \/ PushPreludeAfterSegment
    \/ IterateAfterPush
    \/ IterateAfterEos

RaceSpec == Init /\ [][RaceNext]_vars

(***************************************************************************)
(* The appsrc's state changes next to another element that acquires and    *)
(* releases Contexts, without the data flow.                               *)
(***************************************************************************)
CtxNext ==
    \/ SetPropertyCaps
    \/ SetPropertyContext
    \/ OtherAcquire
    \/ OtherRelease
    \/ ChangeStateNullToReady
    \/ ChangeStateNullToReadyParentFails
    \/ ChangeStateReadyToPaused
    \/ ChangeStatePausedToPlaying
    \/ ChangeStatePlayingToPaused
    \/ ChangeStatePausedToReady
    \/ ChangeStateSrcReadyToNull

CtxSpec == Init /\ [][CtxNext]_vars

(***************************************************************************)
(* The combiner: what the Aggregator base class, the pads' upstreams and   *)
(* the application do with it.                                             *)
(***************************************************************************)
NdiNext ==
    \/ NdiStart
    \/ NdiStop
    \/ CreateNewPad
    \/ ReleasePad
    \/ VideoBufferArrives
    \/ AudioBufferArrives
    \/ PadEos
    \/ NdiSinkEventCaps
    \/ AggregatePeek
    \/ AggregateLock
    \/ AggregateBody
    \/ AggregateDropAudio
    \/ AggregateFinish
    \/ AggregateDropVideo
    \/ AggregateFinishBuffer

NdiSpec == Init /\ [][NdiNext]_vars

Next == SinkNext \/ SrcNext \/ CtxNext \/ RaceNext \/ NdiNext
Spec == Init /\ [][Next]_vars

(***************************************************************************)
(* Properties of the async-mutex sink.                                     *)
(***************************************************************************)
\* The processes inside a section guarded by the handler's Mutex.
InsideLock ==
    {c \in Callers : pc[c] \in {"chain_body", "ev_body", "fs_body"}}
        \cup (IF lock = "sub" THEN {"sub"} ELSE {})
        \cup (IF lcPc \in {"prepare_body", "start_body", "stop_body"} THEN {"app"} ELSE {})

WaitingForLock == {c \in Callers : pc[c] \in {"chain_lock", "ev_lock", "fs_lock"}}

\* The step in which caller c's sink_chain runs handle_buffer.
ChainBodyStep(c) == pc[c] = "chain_body" /\ pc'[c] # "chain_body"

\* C1: at any instant at most one callback (sink_chain, sink_event_serialized,
\* the flush-start work, and equally prepare/start/stop) is inside the section
\* guarded by the handler's Mutex.
C1_AtMostOneInsideLock == Cardinality(InsideLock) <= 1

C1_Witness ==
    \E c, d \in Callers :
        /\ c # d
        /\ pc[c] = "chain_body"
        /\ pc[d] \in {"chain_lock", "ev_lock", "fs_lock"}

\* The buffer meets handle_buffer's expectations: it has a dts, a time
\* segment was received and the dts is not before its start.
WellFormedBuffer(c) ==
    /\ arg[c].val # None
    /\ inner.segment_start # None
    /\ Unwrap(arg[c].val) >= Unwrap(inner.segment_start)

\* C3 as stated: a sink_chain that begins after a flush-start sink_event has
\* returned, on whichever thread it was delivered (and with no flush-stop or
\* start() since), returns Flushing and leaves the handler's state as it was.
C3_AnyThread ==
    [][\A c \in Callers :
          (ChainBodyStep(c) /\ arg[c].after /\ (fsForeign \/ fsCtx) /\ WellFormedBuffer(c))
              => (pc'[c] = "ret_Flushing" /\ inner' = inner)]_vars

\* C3 amended: the same for a flush-start delivered off the Context's thread,
\* where sink_event blocks until is_flushing is written.
C3_ForeignThread ==
    [][\A c \in Callers :
          (ChainBodyStep(c) /\ arg[c].after /\ fsForeign)
              => (pc'[c] = "ret_Flushing" /\ inner' = inner)]_vars

\* A chain that began after the flush-start returned is in handle_buffer
\* while an earlier chain, which was accepted, has not returned yet.
C3_Witness ==
    \E c, d \in Callers :
        /\ c # d
        /\ pc[c] = "chain_body" /\ arg[c].after /\ fsForeign
        /\ inner.last_dts # None
        /\ pc[d] = "ret_Ok"

\* C4: while is_flushing is set, handle_buffer rejects the buffer with
\* Flushing and last_dts, segment_start and stats are as before the call.
C4_FlushingChainRejected ==
    [][\A c \in Callers :
          (ChainBodyStep(c) /\ inner.is_flushing)
              => (pc'[c] = "ret_Flushing" /\ inner' = inner)]_vars

C4_Witness ==
    \E c \in Callers :
        /\ pc[c] = "ret_Flushing"
        /\ inner.is_flushing
        /\ inner.last_dts # None
        /\ inner.segment_start # None

\* C5 as stated: the flush-start work does not depend on the handler's Mutex;
\* it is never left waiting, is_flushing still unset, while a sink_chain
\* holds the lock.
C5_FlushStartNeverWaits ==
    \A c, d \in Callers :
        ~(pc[c] = "fs_lock" /\ pc[d] = "chain_body" /\ lock = d /\ ~inner.is_flushing)

(***************************************************************************)
(* ts-appsrc: what downstream observes.                                    *)
(***************************************************************************)
StreamStartPush == loopPc' = "sent_stream_start" /\ loopPc # "sent_stream_start"
CapsPush == loopPc' = "sent_caps" /\ loopPc # "sent_caps"
SegmentPush == loopPc' = "sent_segment" /\ loopPc # "sent_segment"
BufferPush == loopPc' = "sent_item" /\ loopPc # "sent_item"
EosPush == loopPc' = "sent_eos" /\ loopPc # "sent_eos"
AnyPush == StreamStartPush \/ CapsPush \/ SegmentPush \/ BufferPush \/ EosPush
Dequeue == item = None /\ item' # None

\* stop() has returned and start() has not been called since, and buffers
\* had been accepted before the stop.
StoppedMidStream ==
    /\ taskBound
    /\ taskState = "Stopped"
    /\ IF stopMark = None THEN FALSE ELSE Unwrap(stopMark) > 0

\* C2: buffers reach downstream in the order push_buffer accepted them, none
\* twice: each buffer pushed was accepted after the buffer pushed before it.
C2_InOrderNoDuplicate ==
    [][BufferPush => (lastBufId' > lastBufId /\ lastBufId' < nextId)]_vars

\* Two buffers have been pushed downstream, the second just now.
C2_Witness == loopPc = "sent_item" /\ lastBufId = 2 /\ chan # <<>>

\* C6: the iteration step dequeues an item or pushes downstream only while
\* the Task state is Started, so nothing is pushed between pause() or stop()
\* and the next start().
C6_RunsOnlyWhileStarted ==
    [][(Dequeue \/ AnyPush) => (taskState = "Started" /\ taskState' = "Started")]_vars

\* pause() returned while the step held an item it had not pushed yet.
C6_Witness == taskState = "Paused" /\ item # None /\ chan # <<>>

\* C7: after stop(), the handler is in the state a fresh prepare() with the
\* same settings leaves: the next start() emits the same handshake and the
\* step holds nothing from before the stop.
C7_RestartAsFresh ==
    StoppedMidStream =>
        /\ Handshake(hstate) = Handshake(PadHandlerPrepare(HandlerStateDefault, settingsCaps))
        /\ item = None

\* stop() has been called since the last prepare(), after buffers had been
\* accepted.
RestartedMidStream == IF stopMark = None THEN FALSE ELSE Unwrap(stopMark) > 0

\* C8: a buffer pushed after a stop() mid-stream and a start() was accepted
\* after the stop, and the handshake (stream-start, caps when configured,
\* segment) was emitted again between the stop and that buffer.
C8_StopDiscardsAndRehandshakes ==
    [][(BufferPush /\ RestartedMidStream) =>
          /\ lastBufId' > Unwrap(stopMark)
          /\ ssSinceReset
          /\ (settingsCaps # None => capsSinceReset)
          /\ segSinceReset]_vars

\* The part of C8 about the queue alone: nothing accepted before the stop is
\* pushed after it.
StopDiscardsQueued ==
    [][(BufferPush /\ RestartedMidStream) => lastBufId' > Unwrap(stopMark)]_vars

\* C9: every buffer pushed is preceded since the last prepare()/stop() by a
\* stream-start, and by a caps event when caps are configured, and since the
\* last stop() or flush by a segment; and the need flags are down.
C9_HandshakePrecedesBuffer ==
    [][BufferPush =>
          /\ ssSinceReset
          /\ (settingsCaps # None => capsSinceReset)
          /\ segSinceFlush
          /\ ~hstate'.need_initial_events
          /\ ~hstate'.need_segment]_vars

\* C9 with "caps are configured" read as the caps the handler state holds.
HandshakeOfStatePrecedesBuffer ==
    [][BufferPush =>
          /\ ssSinceReset
          /\ (hstate.caps # None => capsSinceReset)
          /\ segSinceFlush
          /\ ~hstate'.need_initial_events
          /\ ~hstate'.need_segment]_vars

\* C10 as stated: between two resets by stop() exactly one stream-start and
\* exactly one segment are emitted.
C10_OncePerReset ==
    [][(StreamStartPush => ~ssSinceReset) /\ (SegmentPush => ~segSinceReset)]_vars

\* C10: a handshake event is emitted only while its need flag is up; the flag
\* for stream-start and caps, once down, goes up again only by stop(), the
\* flag for the segment only by stop() or flush_start; and between two of
\* those at most one segment is emitted.
C10_CachedUntilRearmed ==
    [][/\ (StreamStartPush \/ CapsPush) => hstate.need_initial_events
       /\ SegmentPush => (hstate.need_segment /\ ~segSinceFlush)
       /\ (~hstate.need_initial_events /\ hstate'.need_initial_events)
             => (taskState' = "Stopped" /\ loopPc' = "idle")
       /\ (~hstate.need_segment /\ hstate'.need_segment)
             => (loopPc' = "idle" /\ (taskState' = "Stopped" \/ flushing'))]_vars

\* A second buffer has been pushed with both need flags down since the first.
C10_Witness ==
    /\ loopPc = "sent_item"
    /\ lastBufId >= 2
    /\ stopMark = None
    /\ ~hstate.need_initial_events
    /\ ~hstate.need_segment
    /\ chan = <<>>

\* C11: while the Flushing flag is set no buffer is pushed downstream, and a
\* buffer that was queued (or held by the running step) when flush_start()
\* ran is never pushed afterwards: every buffer pushed was accepted after
\* the last flush_start().
C11_FlushDiscardsQueued ==
    [][BufferPush => (~flushing /\ ~flushing' /\ lastBufId' > flushMark)]_vars

\* A buffer accepted during the flush is pushed after flush_stop(), buffers
\* having been accepted before the flush_start().
C11_Witness == loopPc = "sent_item" /\ flushMark > 0 /\ lastBufId > flushMark

\* C12: a flush re-arms the segment: every buffer pushed downstream is
\* preceded by a segment pushed after the last flush_start(), with
\* need_segment down again, wherever the flush caught the running step.
C12_SegmentAfterFlush ==
    [][BufferPush => (segSinceFlush /\ segSinceFlush' /\ ~hstate'.need_segment)]_vars

\* After a flush that followed a pushed buffer, the segment has been pushed
\* anew (the initial events are not) and the next item is about to follow.
C12_Witness ==
    /\ loopPc = "sent_segment"
    /\ lastBufId > 0
    /\ lastBufId <= flushMark
    /\ ~hstate.need_initial_events
    /\ item # None

PauseStep == taskState = "Started" /\ taskState' = "Paused"
ResumeStep == taskState = "Paused" /\ taskState' = "Started"

\* C13: pause() leaves the queued items, the item the step holds, the place
\* the step is suspended at and the handshake state as they are, and so does
\* the start() that resumes: what is pushed after the resume is what would
\* have been pushed without the pause, in the same order, with no handshake
\* event that was not already due.
C13_PauseKeepsBuffers ==
    [][/\ PauseStep => (chan' = chan /\ item' = item /\ loopPc' = loopPc /\ hstate' = hstate
                         /\ configured_caps' = configured_caps)
       /\ ResumeStep => (chan' = chan /\ item' = item /\ hstate' = hstate
                          /\ Handshake(hstate') = Handshake(hstate)
                          /\ (loopPc \notin EndedPcs => loopPc' = loopPc))]_vars

\* Paused mid-stream: the handshake and a buffer have been pushed, and
\* buffers are queued.
C13_Witness ==
    /\ taskState = "Paused"
    /\ lastBufId > 0
    /\ Len(chan) >= 2
    /\ ~hstate.need_initial_events
    /\ ~hstate.need_segment


(***************************************************************************)
(* C14: prepare() on a Task that is already prepared fails: a NullToReady  *)
(* state change that finds the Task bound returns StateChangeError with    *)
(* the error message posted, leaves the element in Null and the Task as it *)
(* was; and the Task is only ever Started, and the element only ever past  *)
(* Null, with a Task bound by a prepare() that completed successfully.     *)
(***************************************************************************)
NullToReadyStep == ChangeStateNullToReady \/ ChangeStateNullToReadyParentFails

C14_SecondPrepareFails ==
    [][/\ (NullToReadyStep /\ taskBound) =>
             /\ csRet' = [ret |-> "StateChangeError", posted |-> TRUE]
             /\ srcGst' = "Null"
             /\ taskBound' /\ taskState' = taskState /\ taskCtx' = taskCtx
             /\ contexts' = contexts
       /\ (taskState' = "Started" /\ taskState # "Started") =>
             taskBound /\ taskCtx # None /\ sender = "Some" /\ srcGst = "Paused"
       /\ (srcGst' # "Null" /\ srcGst = "Null") =>
             ~taskBound /\ taskBound' /\ taskState' = "Prepared" /\ taskCtx' # None]_vars

C14_Witness ==
    /\ srcGst = "Null" /\ taskBound /\ sender = "Stale"
    /\ csRet = [ret |-> "StateChangeError", posted |-> TRUE]


(***************************************************************************)
(* C15: stop() is idempotent: whatever state the Task is in, stop()        *)
(* returns Ok and leaves the Task Stopped, the channel empty, the step     *)
(* holding nothing and the handshake state at its defaults; a stop() that  *)
(* finds this state leaves the Task, the channel, the step and the handler *)
(* as they are.                                                            *)
(***************************************************************************)
AfterStop ==
    /\ taskBound
    /\ taskState = "Stopped"
    /\ chan = <<>>
    /\ item = None /\ loopPc = "idle"
    /\ hstate = HandlerStateDefault

C15_StopIdempotent ==
    [][ChangeStatePausedToReady =>
          /\ csRet' = [ret |-> "Success", posted |-> FALSE]
          /\ AfterStop'
          /\ AfterStop => (/\ taskVars' = taskVars /\ chanVars' = chanVars
                           /\ loopVars' = loopVars /\ handlerVars' = handlerVars)]_vars

\* stop() has run twice since prepare(), the second time on a stopped Task,
\* after a handshake with caps and a buffer had been pushed.
C15_Witness ==
    /\ stops = 2 /\ taskState = "Stopped" /\ srcGst = "Ready"
    /\ lastBufId > 0 /\ configured_caps # None


(***************************************************************************)
(* C16: at most one live Context per name. The handles the elements hold   *)
(* are the held handles; two handles are to the same Context when they     *)
(* carry the same id.                                                      *)
(***************************************************************************)
HeldHandles ==
    (IF taskCtx = None THEN {} ELSE {<<"appsrc", Unwrap(taskCtx)>>})
        \cup (IF otherCtx = None THEN {} ELSE {<<"other", Unwrap(otherCtx)>>})

\* C16 as stated: two elements prepared with the same context name and the
\* same context-wait hold handles to the same Context, whatever the name.
C16_OnePerName ==
    \A a \in HeldHandles, b \in HeldHandles :
        (a[2].name = b[2].name /\ a[2].wait = b[2].wait) => a[2].id = b[2].id

\* C16 for the names that are sharing keys, the non-empty ones: every handle
\* held for such a name is to the one Context registered under it, which
\* counts the handles; so two elements prepared with the same non-empty name
\* hold handles to the same Context, with the same wait.
C16_OnePerSharedName ==
    /\ \A a \in HeldHandles :
         a[2].name # "" =>
            /\ contexts[a[2].name] # None
            /\ IF contexts[a[2].name] = None THEN FALSE
               ELSE /\ Unwrap(contexts[a[2].name]).id = a[2].id
                    /\ Unwrap(contexts[a[2].name]).wait = a[2].wait
    /\ \A n \in SharedNames :
         IF contexts[n] = None THEN TRUE
         ELSE Unwrap(contexts[n]).refs = Cardinality({a \in HeldHandles : a[2].name = n})
    /\ \A a \in HeldHandles, b \in HeldHandles :
         (a[2].name = b[2].name /\ a[2].name # "") => a[2].id = b[2].id /\ a[2].wait = b[2].wait

\* Both elements are prepared with the same non-empty name and hold the one
\* Context, created by the other element with a wait that is not the default.
C16_Witness ==
    /\ taskCtx # None /\ otherCtx # None /\ srcGst = "Ready"
    /\ IF taskCtx = None \/ otherCtx = None THEN FALSE
       ELSE /\ Unwrap(taskCtx).name = "ts" /\ Unwrap(otherCtx).name = "ts"
            /\ Unwrap(taskCtx).id = Unwrap(otherCtx).id
            /\ Unwrap(taskCtx).wait = MaxWait
            /\ Unwrap(contexts["ts"]).refs = 2


(***************************************************************************)
(* C17: Context::acquire fails for a name that is live with a different    *)
(* wait and leaves the registry as it is; a NullToReady state change of    *)
(* the appsrc in that situation returns StateChangeError with the error    *)
(* posted, the element stays in Null with no Task bound, and the live      *)
(* Context keeps its wait.                                                 *)
(***************************************************************************)
LiveWithOtherWait(name, wait) ==
    /\ name # ""
    /\ IF contexts[name] = None THEN FALSE ELSE Unwrap(contexts[name]).wait # wait

C17_ConflictingWaitRejected ==
    [][/\ \A name \in SharedNames, wait \in Waits :
            LiveWithOtherWait(name, wait) =>
               /\ ContextAcquire(contexts, UsedIds, name, wait).handle = None
               /\ ContextAcquire(contexts, UsedIds, name, wait).reg = contexts
       /\ (NullToReadyStep /\ LiveWithOtherWait(settingsContext, settingsWait)) =>
             /\ csRet' = [ret |-> "StateChangeError", posted |-> TRUE]
             /\ srcGst' = "Null"
             /\ contexts' = contexts
             /\ taskCtx' = taskCtx /\ otherCtx' = otherCtx
             /\ taskBound' = taskBound /\ sender' = sender]_vars

\* The state change has just failed on the wait: nothing is prepared, and
\* the Context the other element holds is live with another wait.
C17_Witness ==
    /\ csRet = [ret |-> "StateChangeError", posted |-> TRUE]
    /\ srcGst = "Null" /\ ~taskBound /\ taskCtx = None /\ sender = "None"
    /\ otherCtx # None
    /\ LiveWithOtherWait(settingsContext, settingsWait)


(***************************************************************************)
(* C18: block_on_or_add_sub_task as sink_event uses it for flush-start.    *)
(* On the Context's thread the call queues one sub-task and returns in the *)
(* same step, the caller where it was, the lock and the handler's state    *)
(* untouched, and on an active pad it can do so whoever holds the lock.    *)
(* Off the Context the caller leaves sink_event only from the body of the  *)
(* work, with is_flushing set.                                             *)
(***************************************************************************)
OnContextStep == \E c \in Callers : SinkEventFlushStartOnContext(c)

C18_BridgeAsUsedByFlushStart ==
    [][/\ OnContextStep =>
             /\ subq' = subq + 1
             /\ pc' = pc /\ arg' = arg
             /\ lock' = lock /\ inner' = inner
       /\ \A c \in Callers :
             (PadActive /\ pc[c] = "idle" /\ subq < MaxSubTasks /\ lock # "free")
                 => ENABLED SinkEventFlushStartOnContext(c)
       /\ \A c \in Callers :
             (pc[c] \in {"fs_lock", "fs_body"} /\ pc'[c] # pc[c]) =>
                 \/ pc[c] = "fs_lock" /\ pc'[c] = "fs_body" /\ lock = "free" /\ lock' = c
                 \/ pc[c] = "fs_body" /\ pc'[c] = "idle" /\ inner'.is_flushing]_vars

\* A sink_chain that was called before the flush-start holds the lock inside
\* handle_buffer; the flush-start came on the Context's thread and returned,
\* its sub-task is queued and is_flushing is not set yet.
C18_Witness ==
    \E c \in Callers :
        /\ pc[c] = "chain_body" /\ lock = c /\ ~arg[c].after
        /\ fsCtx /\ subq > 0 /\ ~inner.is_flushing


EosDequeue == Dequeue /\ (IF item' = None THEN FALSE ELSE Unwrap(item').kind = "Eos")
EosItemPush == EosPush /\ (IF item = None THEN FALSE ELSE Unwrap(item).kind = "Eos")

EosInOrder ==
    EosDequeue => (loopPc = "idle"
                   /\ (Unwrap(item').id = 0 \/ lastBufId = Unwrap(item').id))

EosEndsLoop ==
    /\ EosItemPush => (item' = None /\ pushRes' = "none" /\ lastBufId' = lastBufId)
    /\ (loopPc = "sent_eos" /\ loopPc' # loopPc) =>
          \/ loopPc' = "ended_Eos" /\ taskState' = taskState /\ chan' = chan
          \/ loopPc' = "idle" /\ (taskState' = "Stopped" \/ flushing' \/ ~taskBound')
    /\ AnyPush => loopPc \notin (EndedPcs \cup {"sent_eos"})
    /\ Dequeue => loopPc \notin (EndedPcs \cup {"sent_eos"})

C20_EosEndsLoopCleanly ==
    [][/\ EosInOrder
       /\ EosItemPush =>
             /\ ssSinceReset
             /\ (settingsCaps # None => capsSinceReset)
             /\ segSinceFlush
             /\ ~hstate'.need_initial_events
             /\ ~hstate'.need_segment
       /\ EosEndsLoop]_vars

\* C20 with the handshake read as what the handler state holds: the caps
\* event only when the state still has the caps.
EosEndsLoopCleanlyOfState ==
    [][/\ EosInOrder
       /\ EosItemPush =>
             /\ ssSinceReset
             /\ (hstate.caps # None => capsSinceReset)
             /\ segSinceFlush
             /\ ~hstate'.need_initial_events
             /\ ~hstate'.need_segment
       /\ EosEndsLoop]_vars

\* The loop has ended with Eos on an EOS item that was queued behind a
\* buffer, with more items queued since.
EosEndedBehindBuffer ==
    loopPc = "ended_Eos" /\ lastBufId > 0 /\ chan # <<>> /\ taskState = "Started"


(***************************************************************************)
(* C21: what iterate does with the result of the buffer's push. For a      *)
(* FlowError other than Eos and Flushing it posts an element error and     *)
(* returns that error, which ends the loop; for Flushing it returns        *)
(* Flushing and posts nothing.                                             *)
(***************************************************************************)
\* iterate's match on the result of pad.push: the step leaves "sent_item"
\* without having been unwound by stop(), flush_start or unprepare().
PushResultStep ==
    /\ loopPc = "sent_item" /\ loopPc' # loopPc
    /\ taskState' = taskState /\ flushing' = flushing /\ taskBound' = taskBound

C21_ErrorsPostedFlushingNot ==
    [][PushResultStep =>
          /\ pushRes = "Error" => loopPc' = "ended_Error"
          /\ pushRes = "NotNegotiated" => loopPc' = "ended_NotNegotiated"
          /\ pushRes \in {"Error", "NotNegotiated"} => loopPc' \in ErrorPostedPcs
          /\ pushRes = "Flushing" => (loopPc' = "ended_Flushing" /\ loopPc' \notin ErrorPostedPcs)
          /\ loopPc' \in ErrorPostedPcs => pushRes \in {"Error", "NotNegotiated"}
          /\ loopPc' \in EndedPcs => (chan' = chan /\ item' = item /\ hstate' = hstate)]_vars

\* The loop has ended on a downstream error with an item still queued, which
\* it does not dequeue.
C21_Witness ==
    /\ loopPc = "ended_NotNegotiated" /\ taskState = "Started" /\ chan # <<>>
    /\ lastBufId > 0


(***************************************************************************)
(* C22: push_buffer rejects the buffer when the Task is neither Started    *)
(* nor Paused and leaves the channel as it is; a buffer is enqueued only   *)
(* with the Task Started or Paused, and while a push_buffer is between its *)
(* state check and its return the Task's state does not change, so no      *)
(* stop() falls between the check and the enqueue.                         *)
(***************************************************************************)
BufferEnqueue ==
    /\ Len(chan') = Len(chan) + 1
    /\ chan'[Len(chan')].kind = "Buffer"

C22_RejectsWhenNotRunning ==
    [][/\ (PushBufferCheck /\ taskState \notin {"Started", "Paused"}) =>
             (pbRet' = "false" /\ pbPc' = "idle" /\ chan' = chan /\ nextId' = nextId)
       /\ BufferEnqueue => (taskState \in {"Started", "Paused"} /\ taskState' = taskState
                             /\ pbPc = "send" /\ pbRet' = "true")
       /\ pbPc = "send" => (taskState' = taskState /\ taskBound' = taskBound)]_vars

\* A push_buffer is past its state check while the element is Paused with the
\* Task Paused: the stop() of a PausedToReady has to wait for it.
C22_Witness ==
    /\ pbPc = "send" /\ srcGst = "Paused" /\ taskState = "Paused"
    /\ pbRet = "none" /\ chan # <<>>


(***************************************************************************)
(* C23: the channel is bounded by max-buffers: never more than max-buffers *)
(* items are queued, and a push_buffer that finds the channel full returns *)
(* false at once and leaves the queue as it is.                            *)
(***************************************************************************)
\* push_buffer is past its state check and try_send finds no room.
PushOnFullChannel == PushBufferSend /\ sender = "Some" /\ ~ChannelHasRoom(chan)

C23_BoundedByMaxBuffers ==
    [][/\ Len(chan') <= MaxBuffers
       /\ PushOnFullChannel => (pbRet' = "false" /\ pbPc' = "idle" /\ chan' = chan)]_vars

\* C23 with the bound try_send enforces: one item more than max-buffers.
BoundedByMaxBuffersPlusSender ==
    [][/\ Len(chan') <= MaxBuffers + 1
       /\ PushOnFullChannel => (pbRet' = "false" /\ pbPc' = "idle" /\ chan' = chan)
       /\ (Len(chan) = MaxBuffers + 1 /\ AppSrcEndOfStream) => FALSE]_vars

\* push_buffer has just returned false on a channel that holds one item more
\* than max-buffers.
FullChannelRejected ==
    pbRet = "false" /\ Len(chan) = MaxBuffers + 1 /\ taskState = "Started"


(***************************************************************************)
(* C24: teardown succeeds after failures. Once iterate has posted an       *)
(* element error, the stop() of PausedToReady and the unprepare() of       *)
(* ReadyToNull can still run and return Success; after the stop the Task   *)
(* is Stopped, the step is gone, the handler state lock is free and the    *)
(* channel is empty; after the unprepare the sender is None as well and    *)
(* the Task is unbound.                                                    *)
(***************************************************************************)
C24_TeardownAfterFailure ==
    [][/\ (loopFailed /\ srcGst = "Paused") => ENABLED ChangeStatePausedToReady
       /\ (loopFailed /\ srcGst = "Ready") => ENABLED ChangeStateSrcReadyToNull
       /\ (loopFailed /\ ChangeStatePausedToReady) =>
             /\ csRet' = [ret |-> "Success", posted |-> FALSE]
             /\ taskState' = "Stopped"
             /\ loopPc' = "idle" /\ item' = None /\ ~StateLocked'
             /\ chan' = <<>>
       /\ (loopFailed /\ ChangeStateSrcReadyToNull) =>
             /\ csRet' = [ret |-> "Success", posted |-> FALSE]
             /\ ~taskBound'
             /\ loopPc' = "idle" /\ item' = None /\ ~StateLocked'
             /\ chan' = <<>>
             /\ sender' = "None"]_vars

\* The element is back in Null, torn down, after its loop had ended with an
\* error since the prepare().
C24_Witness ==
    /\ loopFailed /\ srcGst = "Null" /\ ~taskBound
    /\ sender = "None" /\ chan = <<>> /\ loopPc = "idle"
    /\ csRet = [ret |-> "Success", posted |-> FALSE]


(***************************************************************************)
(* C25: the handler's lock is released on every exit path of a callback:   *)
(* it is held only by a caller that is inside the guarded section of its   *)
(* callback (or by the sub-task or the state-change thread inside theirs); *)
(* a caller that is returning from sink_chain, with Ok, Flushing or a      *)
(* panic, or from sink_event_serialized does not hold it.                  *)
(***************************************************************************)
C25_LockReleasedOnEveryExit ==
    /\ \A c \in Callers :
         /\ lock = c => pc[c] \in {"chain_body", "ev_body", "fs_body"}
         /\ pc[c] \in {"idle", "ret_Ok", "ret_Flushing", "ret_Panic", "ev_post"} => lock # c
    /\ lock = "app" => lcPc \in {"prepare_body", "start_body", "stop_body"}
    /\ lock = "sub" => subq > 0
    /\ lock \in Callers \cup {"free", "app", "sub"}

\* A sink_chain is returning Flushing while the other caller is already
\* inside the lock.
C25_Witness ==
    \E c, d \in Callers :
        /\ c # d
        /\ pc[c] = "ret_Flushing"
        /\ lock = d /\ pc[d] \in {"chain_body", "ev_body"}

\* A sink_chain is leaving by a panic of handle_buffer.
ChainPanics == \E c \in Callers : pc[c] = "ret_Panic" /\ lock = "free"


(***************************************************************************)
(* C26: a flush-start followed by a flush-stop leaves the handler not      *)
(* flushing: the flush-stop's write leaves is_flushing false, and when it  *)
(* is made no flush-start that had returned before the flush-stop was      *)
(* called is still waiting to be applied, so that no such flush-start sets *)
(* is_flushing after it.                                                   *)
(***************************************************************************)
FlushStopProcessed(c) ==
    pc[c] = "ev_body" /\ arg[c].kind = "FlushStop" /\ pc'[c] # "ev_body"

C26_FlushStopIsLast ==
    [][\A c \in Callers :
          FlushStopProcessed(c) => (~inner'.is_flushing /\ arg[c].pending = 0)]_vars


AcquireErrorChangesNothing ==
    [][(NullToReadyStep /\ PrepareOutcome = "AcquireError") =>
          /\ sender' = sender /\ chan' = chan
          /\ hstate' = hstate
          /\ taskBound' = taskBound /\ taskState' = taskState
          /\ contexts' = contexts /\ taskCtx' = taskCtx]_vars


(***************************************************************************)
(* C28: whenever the Task is Started or Paused the sender is present and   *)
(* connected; a push_buffer that is past its state check finds the sender  *)
(* and never panics on its unwrap; the loop never finds the channel        *)
(* closed.                                                                 *)
(***************************************************************************)
C28_SenderPresentWhileRunning ==
    /\ taskState \in {"Started", "Paused"} => sender = "Some"
    /\ pbPc = "send" => sender = "Some"
    /\ pbPc # "panicked"
    /\ loopPc # "ended_Aborted"

\* unprepare() has cleared the sender and not yet unprepared the Task, and a
\* push_buffer called meanwhile was rejected at its state check, after
\* buffers had flowed.
C28_Witness ==
    /\ srcGst = "ReadyToNull" /\ sender = "None" /\ taskBound
    /\ pbPc = "idle" /\ pbRet = "false" /\ lastBufId > 0


(***************************************************************************)
(* C29: end_of_stream() applies the state rule of push_buffer(): an EOS    *)
(* item is queued only while the Task is Started or Paused.                *)
(***************************************************************************)
EosEnqueue ==
    /\ Len(chan') = Len(chan) + 1
    /\ chan'[Len(chan')].kind = "Eos"

C29_EosOnlyWhileRunning ==
    [][EosEnqueue => taskState \in {"Started", "Paused"}]_vars

\* The EOS event is pushed downstream for an EOS item although nothing was
\* queued since the Task was last started: the item was queued before.
EosFromBeforeStart ==
    loopPc = "sent_eos" /\ lastBufId = 0 /\ nextId = 1 /\ stops = 0


(***************************************************************************)
(* C30: the sink's lifecycle controls acceptance. Between stop() and the   *)
(* next start() every sink_chain returns Flushing and records nothing, and *)
(* start() leaves is_flushing false and last_dts None whatever the state   *)
(* before, also after an Eos event had set is_flushing.                    *)
(***************************************************************************)
ChainHandled(c) ==
    /\ pc[c] = "chain_body"
    /\ pc'[c] \in {"ret_Ok", "ret_Flushing", "ret_Panic"}

StartRan == lcPc = "start_body" /\ lcPc' = "idle"

C30_LifecycleControlsAcceptance ==
    [][/\ \A c \in Callers :
            ChainHandled(c) /\ sinkStopped => pc'[c] = "ret_Flushing" /\ inner' = inner
       /\ StartRan => ~inner'.is_flushing /\ inner'.last_dts = None /\ ~sinkStopped']_vars

\* The part on start() alone.
StartResets ==
    [][StartRan => ~inner'.is_flushing /\ inner'.last_dts = None /\ ~sinkStopped']_vars

\* The part on recording alone: no sink_chain handled after stop() and
\* before the next start() changes the handler's data.
NothingRecordedWhileStopped ==
    [][\A c \in Callers : ChainHandled(c) /\ sinkStopped => inner' = inner]_vars


(***************************************************************************)
(* C31: the handler's lock is held only for a synchronous access to the    *)
(* state, never across a suspension point: whoever holds it is in the body *)
(* of its critical section, whose one step releases it. So prepare, start  *)
(* and stop, blocked on the lock, always terminate, also with chain and    *)
(* event callbacks in flight.                                              *)
(***************************************************************************)
LockHeldInBodyOnly ==
    /\ \A c \in Callers : lock = c => pc[c] \in {"chain_body", "ev_body", "fs_body"}
    /\ \A c \in Callers : pc[c] \in {"chain_body", "ev_body", "fs_body"} => lock = c
    /\ lock = "app" <=> lcPc \in {"prepare_body", "start_body", "stop_body"}
    /\ lock = "sub" => subq > 0

PadOperation == AggregatePeek \/ AggregateDropAudio \/ AggregateDropVideo

C32_NoPadOperationUnderLock ==
    [][/\ PadOperation => stateLock # "agg"
       /\ aggPc' # "deadlocked"]_vars

\* What holds instead: the peeks and the video pad's drop_buffer are called
\* without the lock; the audio pad's drop_buffer is called with the lock
\* held, but for the buffer that was just peeked, which the pad still has,
\* so that the pad calls no clip(); and aggregate() never waits for itself.
C32_NoClipUnderLock ==
    [][/\ AggregatePeek \/ AggregateDropVideo => stateLock # "agg"
       /\ AggregateDropAudio =>
             /\ stateLock = "agg"
             /\ aPeek # None /\ pads["audio"].clipped = aPeek
             /\ ~DropBuffer(state, "audio", pads["audio"]).clips
       /\ aggPc' # "deadlocked"]_vars

\* The audio pad's drop_buffer is about to be called, the buffer that was
\* peeked is on the pad and another one has arrived behind it.
C32_Witness ==
    /\ aggPc = "drop_audio" /\ stateLock = "agg"
    /\ pads["audio"].clipped = aPeek /\ aPeek # None
    /\ pads["audio"].data # <<>>


(***************************************************************************)
(* C33: the combiner queues exactly one video frame. It holds at most one  *)
(* video buffer; the first video buffer after start() is stored and        *)
(* aggregate() returns NEED_DATA with no output; from then on a buffer is  *)
(* held until the video pad is EOS; and the held buffer is finished only   *)
(* when the next video buffer has arrived or the video pad is EOS.         *)
(***************************************************************************)
HeldVideo == IF state = None THEN None ELSE Unwrap(state).current_video_buffer

FirstVideoStored ==
    /\ (AggregateBody /\ state # None /\ vPeek # None /\ HeldVideo = None)
          => (HeldVideo' = vPeek /\ aggPc' = "drop_first" /\ finished' = finished)
    /\ (AggregateDropVideo /\ aggPc = "drop_first")
          => (aggRet'.val = "NeedData" /\ aggPc' = "idle" /\ finished' = finished)

HeldFinishedOnNextOrEos ==
    (AggregateFinish /\ (IF cur = None THEN FALSE ELSE Unwrap(cur).video # 0))
       => /\ HeldVideo # None
          /\ Unwrap(cur).video = Unwrap(HeldVideo).id
          /\ vPeek # None \/ IsEos(pads["video"])
          /\ HeldVideo' = vPeek

HeldUntilEos ==
    (state # None /\ aggPc = "idle" /\ takenV # <<>> /\ HeldVideo = None)
       => IsEos(pads["video"])

AudioIncluded == AggregateBody /\ takenA' # takenA

EndsByNextVideo ==
    IF aPeek = None \/ vPeek = None THEN FALSE
    ELSE IF Unwrap(aPeek).rt = None THEN FALSE
    ELSE Unwrap(Unwrap(aPeek).rt) <= Unwrap(Unwrap(vPeek).rt)

EndsAfterNextVideo ==
    IF aPeek = None \/ vPeek = None THEN FALSE
    ELSE IF Unwrap(aPeek).rt = None THEN FALSE
    ELSE Unwrap(Unwrap(aPeek).rt) > Unwrap(Unwrap(vPeek).rt)

NoNextVideo == vPeek = None /\ IsEos(pads["video"])

\* The later audio buffer stays on the pad, and the frame is finished with
\* what has accumulated.
LaterAudioLeftQueued ==
    /\ (AggregateBody /\ EndsAfterNextVideo /\ HeldVideo # None
          /\ (IF state = None THEN FALSE ELSE Unwrap(state).audio_info))
          => /\ aggPc' = "finish" /\ state' = state /\ pads' = pads /\ takenA' = takenA
             /\ pads["audio"].clipped = aPeek
    /\ AggregateFinish
          => /\ Unwrap(cur').audio = Unwrap(state).current_audio_buffers
             /\ Unwrap(cur').video = Unwrap(cur).video

C34_AudioOnlyUpToNextVideo ==
    [][/\ AudioIncluded => (EndsByNextVideo \/ NoNextVideo)
       /\ LaterAudioLeftQueued]_vars

\* What holds instead: an audio buffer whose running-time end is not known
\* (it has no PTS) is attached as well, whatever the next video buffer.
EndUnknown == IF aPeek = None THEN FALSE ELSE Unwrap(aPeek).rt = None

C34_AudioUpToNextVideoOrUntimed ==
    [][/\ AudioIncluded => (EndsByNextVideo \/ NoNextVideo \/ EndUnknown)
       /\ (AggregateBody /\ EndUnknown /\ vPeek # None /\ HeldVideo # None
             /\ (IF state = None THEN FALSE ELSE Unwrap(state).audio_info))
             => AudioIncluded
       /\ LaterAudioLeftQueued]_vars

\* One audio buffer has been attached and the frame is being finished
\* because the next audio buffer, still on the pad, ends after the next
\* video buffer.
C34_Witness ==
    /\ aggPc = "finish" /\ vPeek # None /\ EndsAfterNextVideo
    /\ pads["audio"].clipped = aPeek
    /\ Len(Unwrap(state).current_audio_buffers) = 1


(***************************************************************************)
(* C35: audio is conserved between start() and stop(). The audio buffers   *)
(* pushed on current_audio_buffers since start() are, in arrival order and *)
(* each once, those attached to the finished buffers, then those attached  *)
(* to the buffer being finished, then those still accumulated; and         *)
(* current_audio_buffers is empty at every finish_buffer.                  *)
(***************************************************************************)
RECURSIVE AudioOf(_)
AudioOf(bufs) == IF bufs = <<>> THEN <<>> ELSE Head(bufs).audio \o AudioOf(Tail(bufs))

Increasing(q) == \A i, j \in 1..Len(q) : i < j => q[i] < q[j]

C35_AudioConserved ==
    state # None =>
        /\ takenA = AudioOf(finished)
                        \o (IF cur = None THEN <<>> ELSE Unwrap(cur).audio)
                        \o Unwrap(state).current_audio_buffers
        /\ Increasing(takenA)
        /\ aggPc \in {"drop_next", "finish_buffer"}
              => Unwrap(state).current_audio_buffers = <<>>
        /\ (aggPc = "idle" /\ aggRet.downstream)
              => Unwrap(state).current_audio_buffers = <<>>

\* Two frames have been finished, each with one audio buffer.
C35_Witness ==
    /\ state # None /\ aggPc = "idle"
    /\ Len(finished) = 2 /\ finished[1].audio = <<1>> /\ finished[2].audio = <<2>>
    /\ finished[1].video # 0


(***************************************************************************)
(* C36: video buffers are finished downstream in arrival order, each once, *)
(* between start() and stop(). The video buffers taken from the video pad  *)
(* since start() are, in order and each once, the finished ones, then the  *)
(* one being finished, then the held one; and the buffer aggregate() drops *)
(* from the pad is the one it has just stored.                             *)
(***************************************************************************)
RECURSIVE VideoOf(_)
VideoOf(bufs) ==
    IF bufs = <<>> THEN <<>>
    ELSE (IF Head(bufs).video = 0 THEN <<>> ELSE <<Head(bufs).video>>) \o VideoOf(Tail(bufs))

BeingFinished ==
    IF cur # None /\ aggPc \in {"drop_next", "finish_buffer"}
    THEN VideoOf(<<Unwrap(cur)>>) ELSE <<>>

VideoInOrderOnce ==
    state # None =>
        /\ takenV = VideoOf(finished) \o BeingFinished
                        \o (IF HeldVideo = None THEN <<>> ELSE <<Unwrap(HeldVideo).id>>)
        /\ Increasing(takenV)

C36_VideoInOrderOnce ==
    /\ []VideoInOrderOnce
    /\ [][AggregateDropVideo =>
             /\ pads["video"].clipped = vPeek /\ HeldVideo = vPeek
             /\ pads'["video"].clipped = None
             /\ pads'["video"].data = pads["video"].data]_vars

\* Three video buffers were taken: two are finished, the third is held.
C36_Witness ==
    /\ state # None /\ aggPc = "idle"
    /\ VideoOf(finished) = <<1, 2>> /\ takenV = <<1, 2, 3>>
    /\ HeldVideo # None


(***************************************************************************)
(* C37: aggregate() never returns Eos while a video buffer is still held.  *)
(* Once the video pad is EOS the last held frame is finished, with its     *)
(* accumulated audio, before any Eos; and Eos is returned with nothing     *)
(* held only when the audio pad, if there is one, is EOS too with no       *)
(* buffer queued, or when the remaining audio has no video position.       *)
(***************************************************************************)
AggReturns(r) == aggPc # "idle" /\ aggPc' = "idle" /\ aggRet'.val = r

AudioDone == ~audio_pad \/ IsEos(pads["audio"])

EosWithNothingHeld ==
    /\ HeldVideo = None /\ HeldVideo' = None
    /\ state # None /\ Unwrap(state).current_audio_buffers = <<>>
    /\ vPeek = None /\ IsEos(pads["video"])
    /\ aPeek = None => AudioDone
    /\ finished' = finished

LastFrameFinishedOnEos ==
    (AggregateFinish /\ vEnd = None /\ HeldVideo # None)
       => /\ Unwrap(cur').video = Unwrap(HeldVideo).id
          /\ Unwrap(cur').audio = Unwrap(state).current_audio_buffers
          /\ HeldVideo' = None
          /\ aggPc' = "finish_buffer"

C37_NoEosWhileVideoHeld ==
    [][/\ AggReturns("Eos") => HeldVideo' = None
       /\ (AggReturns("Eos") /\ ~aggRet'.downstream) => EosWithNothingHeld
       /\ LastFrameFinishedOnEos]_vars

\* What holds instead: the Eos that aggregate() decides itself is returned
\* with nothing held; the Eos that finish_buffer brings from downstream is
\* returned as it is, with the next video buffer held.
C37_NoOwnEosWhileVideoHeld ==
    [][/\ (AggReturns("Eos") /\ ~aggRet'.downstream) => EosWithNothingHeld
       /\ (AggReturns("Eos") /\ aggRet'.downstream) => AggregateFinishBuffer
       /\ LastFrameFinishedOnEos]_vars

\* The last frame was finished after video EOS, and with both pads EOS
\* aggregate() has returned its own Eos.
C37_Witness ==
    /\ aggPc = "idle" /\ aggRet = [val |-> "Eos", downstream |-> FALSE]
    /\ finished # <<>> /\ finished[Len(finished)].video # 0
    /\ HeldVideo = None /\ state # None
    /\ audio_pad /\ IsEos(pads["audio"]) /\ IsEos(pads["video"])

\* Downstream has returned Eos for a finished frame while the next video
\* buffer is held.
DownstreamEosWhileHeld ==
    /\ aggPc = "idle" /\ aggRet = [val |-> "Eos", downstream |-> TRUE]
    /\ HeldVideo # None


(***************************************************************************)
(* C38: the combiner's state exists exactly between start() and stop().    *)
(* start() always installs a fresh state; while stopped aggregate()        *)
(* returns Flushing without output, clip() drops the buffer, a caps event  *)
(* is rejected, and none of them creates or modifies the state.            *)
(***************************************************************************)
Stopped == state = None

StartInstallsStopDrops ==
    /\ NdiStart => state' = Some(StateNew)
    /\ NdiStop => state' = None
    /\ (Stopped # (state' = None)) => (NdiStart \/ NdiStop)

AggReturnsAny == aggPc # "idle" \/ AggregatePeek

StoppedCapsRejected ==
    (Stopped /\ NdiSinkEventCaps) => (evRet' = "false" /\ state' = None)

\* On pad p, stopped, clip() lets no buffer through.
ClipDropsAll(p) ==
    LET r == PeekBuffer(None, p, pads[p])
    IN  /\ r.pad.clipped = pads[p].clipped
        /\ pads[p].clipped = None => r.pad.data = <<>>

\* The same for the buffers that have a PTS.
ClipDropsTimed(p) ==
    LET r == PeekBuffer(None, p, pads[p])
    IN  \/ r.pad.clipped = pads[p].clipped
        \/ Unwrap(r.pad.clipped).rt = None

C38_StateBetweenStartAndStop ==
    /\ [][/\ StartInstallsStopDrops
          /\ StoppedCapsRejected
          /\ (Stopped /\ AggReturnsAny /\ aggPc' = "idle")
                => (aggRet'.val = "Flushing" /\ finished' = finished /\ state' = None)]_vars
    /\ [](Stopped => \A p \in PadNames : ClipDropsAll(p))

\* What holds instead: stopped, an aggregate() that gets as far as the state
\* returns Flushing, one that finds a pad with neither a buffer nor EOS has
\* returned NEED_DATA before; clip() drops every buffer that has a PTS.
C38_StoppedRejectsAtTheState ==
    /\ [][/\ StartInstallsStopDrops
          /\ StoppedCapsRejected
          /\ (Stopped /\ AggReturnsAny /\ aggPc' = "idle")
                => /\ aggRet'.val = IF AggregatePeek THEN "NeedData" ELSE "Flushing"
                   /\ finished' = finished /\ state' = None
          /\ (Stopped /\ AggregateBody) => aggRet'.val = "Flushing"]_vars
    /\ [](Stopped => \A p \in PadNames : ClipDropsTimed(p))

\* Stopped after a run: a video buffer that came since was dropped by
\* clip(), a caps event was rejected, and aggregate() has returned Flushing.
C38_Witness ==
    /\ Stopped /\ aggPc = "idle"
    /\ aggRet = [val |-> "Flushing", downstream |-> FALSE]
    /\ evRet = "false"
    /\ finished # <<>>
    /\ nextVid > Len(takenV) + 1 /\ pads["video"] = [PadEmpty EXCEPT !.eos = TRUE]

====
